---- MODULE Spec2Model ----
(***************************************************************************)
(* Model of the playlist generation and enrichment pipeline of the         *)
(* EmotionQuest backend: the two in-memory result caches (InMemoryStore    *)
(* and PlaylistStore), the batched track resolution of both providers      *)
(* (searchMultipleTracks, searchMultipleSpotifyTracks) and the             *)
(* generate-and-resolve controller (getPlaylist, getPlaylistById).         *)
(*                                                                         *)
(* Strings are sequences of one-character strings, so that trimming,       *)
(* lower-casing and whitespace collapsing are computed, not assumed.       *)
(* Objects are records with a "type" field; JavaScript null is Null.       *)
(* A JavaScript Map is a sequence of entries in insertion order.           *)
(***************************************************************************)
EXTENDS Integers, Sequences, FiniteSets, TLC

VARIABLES
  impl,             \* which module the name `store` is bound to
  now,              \* Date.now(), in milliseconds
  ticks,            \* number of clock advances so far
  im_playlists,     \* InMemoryStore.playlists
  im_searchCache,   \* InMemoryStore.searchCache
  ps_playlists,     \* PlaylistStore.playlists
  ps_searchResults, \* PlaylistStore.searchResults
  nextGen,          \* number of ids generateId() has handed out
  stores,           \* number of store operations so far
  last,             \* the last store operation and what it returned
  calls,            \* the resolveMany calls (searchMultiple...Tracks)
  req               \* the generate request (getPlaylist)

flowVars == <<calls, req>>

storeVars == <<impl, now, ticks, im_playlists, im_searchCache,
               ps_playlists, ps_searchResults, nextGen, stores, last>>

vars == <<storeVars, flowVars>>

(***************************************************************************)
(* Bounds of the model.                                                    *)
(***************************************************************************)
MaxTicks == 1      \* clock advances per behaviour
MaxStores == 3     \* entries written to the caches per behaviour
MaxFailures == 1   \* provider requests that fail per resolveMany call

(***************************************************************************)
(* Values.                                                                 *)
(***************************************************************************)
Null == [type |-> "null"]

NoOp == [op |-> "none", arg |-> Null, ret |-> Null, path |-> "none"]

Uuid(n) == [type |-> "id", kind |-> "uuid", n |-> n]

(* The playlist ids a caller may present (crypto.randomUUID() values). *)
Uuids == {Uuid(1), Uuid(2), Uuid(3)}

PlaylistData(n) == [type |-> "playlist", title |-> n, songs |-> n]

(* The raw query strings the store is exercised with. *)
Queries ==
  { <<"a", " ">>, <<"B">>, <<"a", " ", " ", "b">> }

SearchHit(q) == [type |-> "match", of |-> q]

(***************************************************************************)
(* String helpers: String.prototype.toLowerCase, trim, replace(/\s+/g,' ') *)
(***************************************************************************)
LowerChar(c) == IF c = "A" THEN "a" ELSE IF c = "B" THEN "b" ELSE c

toLowerCase(s) == [i \in 1..Len(s) |-> LowerChar(s[i])]

RECURSIVE trimStart(_)
trimStart(s) ==
  IF s # <<>> /\ Head(s) = " " THEN trimStart(Tail(s)) ELSE s

RECURSIVE trimEnd(_)
trimEnd(s) ==
  IF s # <<>> /\ s[Len(s)] = " " THEN trimEnd(SubSeq(s, 1, Len(s) - 1)) ELSE s

trim(s) == trimEnd(trimStart(s))

RECURSIVE collapseSpaces(_)
collapseSpaces(s) ==
  IF Len(s) < 2 THEN s
  ELSE IF s[1] = " " /\ s[2] = " " THEN collapseSpaces(Tail(s))
  ELSE <<s[1]>> \o collapseSpaces(Tail(s))

(***************************************************************************)
(* Map helpers: Map.prototype.get / has / set / delete on a sequence of    *)
(* entries with a `key` field, kept in insertion order.                    *)
(***************************************************************************)
MapKeys(m) == {m[i].key : i \in 1..Len(m)}

MapHas(m, k) == k \in MapKeys(m)

MapIndex(m, k) == CHOOSE i \in 1..Len(m) : m[i].key = k

MapGet(m, k) == m[MapIndex(m, k)]

(* mutant of MapSet: every set() adds an entry *)
MapSetAppends(m, k, e) == Append(m, e)

(* set() on a key that is present replaces the value and keeps its place *)
MapSet(m, k, e) ==
  IF MapHas(m, k) THEN [m EXCEPT ![MapIndex(m, k)] = e] ELSE Append(m, e)

RECURSIVE SelectEntries(_, _)
SelectEntries(m, keep) ==
  IF m = <<>> THEN <<>>
  ELSE IF Head(m).key \in keep THEN <<Head(m)>> \o SelectEntries(Tail(m), keep)
  ELSE SelectEntries(Tail(m), keep)

MapDelete(m, k) == SelectEntries(m, MapKeys(m) \ {k})

(***************************************************************************)
(* JavaScript object spread: {...x}.  Spreading an object copies its own   *)
(* fields; spreading a string copies its characters under the keys 0, 1,   *)
(* ... and none of the fields an object would have had.                    *)
(***************************************************************************)
Spread(x) ==
  IF x.type = "id" THEN [type |-> "chars", of |-> x] ELSE x

(***************************************************************************)
(* InMemoryStore                                                           *)
(***************************************************************************)
maxCacheSize == 2

cacheExpiry == 30 * 60 * 1000

IM_SEARCH_EXPIRY == 10 * 60 * 1000

normalizeQuery(query) == collapseSpaces(trim(toLowerCase(query)))

(* mutant of IM_evictOldest: the entry with the smallest timestamp goes *)
IM_evictSmallestTimestamp(m) ==
  IF Len(m) > maxCacheSize
  THEN MapDelete(m, m[CHOOSE i \in 1..Len(m) :
                        \A j \in 1..Len(m) :
                          \/ (IF "createdAt" \in DOMAIN m[i] THEN m[i].createdAt
                              ELSE m[i].timestamp)
                               < (IF "createdAt" \in DOMAIN m[j] THEN m[j].createdAt
                                  ELSE m[j].timestamp)
                          \/ /\ (IF "createdAt" \in DOMAIN m[i] THEN m[i].createdAt
                                 ELSE m[i].timestamp)
                                  = (IF "createdAt" \in DOMAIN m[j] THEN m[j].createdAt
                                     ELSE m[j].timestamp)
                             /\ i <= j].key)
  ELSE m

IM_evictOldest(m) ==
  IF Len(m) > maxCacheSize THEN MapDelete(m, m[1].key) ELSE m

IM_storePlaylist(m, id, playlistData, t) ==
  IM_evictOldest(
    MapSet(m, id, [key |-> id, id |-> id, value |-> Spread(playlistData),
                   createdAt |-> t]))

IM_playlistExpired(e, t) == t - e.createdAt > cacheExpiry

IM_getPlaylist(m, id, t) ==
  IF ~MapHas(m, id) THEN [ret |-> Null, map |-> m, path |-> "absent"]
  ELSE IF IM_playlistExpired(MapGet(m, id), t)
       THEN [ret |-> Null, map |-> MapDelete(m, id), path |-> "expired"]
       ELSE [ret |-> MapGet(m, id), map |-> m, path |-> "fresh"]

IM_storeSearchResult(m, query, result, t) ==
  IM_evictOldest(
    MapSet(m, normalizeQuery(query),
           [key |-> normalizeQuery(query), result |-> result, timestamp |-> t]))

IM_searchExpired(e, t) == t - e.timestamp > IM_SEARCH_EXPIRY

IM_getSearchResult(m, query, t) ==
  LET key == normalizeQuery(query) IN
  IF ~MapHas(m, key) THEN [ret |-> Null, map |-> m, path |-> "absent"]
  ELSE IF IM_searchExpired(MapGet(m, key), t)
       THEN [ret |-> Null, map |-> MapDelete(m, key), path |-> "expired"]
       ELSE [ret |-> MapGet(m, key).result, map |-> m, path |-> "fresh"]

IM_cleanupPlaylists(m, t) ==
  SelectEntries(m, {m[i].key : i \in {j \in 1..Len(m) : ~IM_playlistExpired(m[j], t)}})

IM_cleanupSearches(m, t) ==
  SelectEntries(m, {m[i].key : i \in {j \in 1..Len(m) : ~IM_searchExpired(m[j], t)}})

(***************************************************************************)
(* PlaylistStore                                                           *)
(***************************************************************************)
EXPIRATION_TIME == 24 * 60 * 60 * 1000

SEARCH_EXPIRATION_TIME == 4 * 60 * 60 * 1000

(* generateId(): `playlist_${Date.now()}_${random}`, a fresh id each call *)
generateId(n) == [type |-> "id", kind |-> "playlist", n |-> n]

PS_playlistExpired(e, t) == t - e.timestamp > EXPIRATION_TIME

PS_searchExpired(e, t) == t - e.timestamp > SEARCH_EXPIRATION_TIME

cleanExpiredPlaylists(m, t) ==
  SelectEntries(m, {m[i].key : i \in {j \in 1..Len(m) : ~PS_playlistExpired(m[j], t)}})

cleanExpiredSearchResults(m, t) ==
  SelectEntries(m, {m[i].key : i \in {j \in 1..Len(m) : ~PS_searchExpired(m[j], t)}})

(* { id, ...playlistData, timestamp }: a field `id` of the data overrides *)
(* the generated one in the object, never in the map key                  *)
PS_playlistObject(id, playlistData, t) ==
  [key |-> id,
   id |-> IF "id" \in DOMAIN Spread(playlistData)
          THEN Spread(playlistData).id ELSE id,
   value |-> Spread(playlistData),
   timestamp |-> t]

(* storePlaylist(playlistData): one parameter; the key is generated inside *)
PS_storePlaylist(m, playlistData, n, t) ==
  cleanExpiredPlaylists(
    MapSet(m, generateId(n), PS_playlistObject(generateId(n), playlistData, t)), t)

(* mutant of PS_getPlaylist: the expired entry is reported as a miss but *)
(* left in the map for the sweep to remove                               *)
PS_getPlaylistNoDelete(m, id, t) ==
  IF ~MapHas(m, id) THEN [ret |-> Null, map |-> m, path |-> "absent"]
  ELSE IF PS_playlistExpired(MapGet(m, id), t)
       THEN [ret |-> Null, map |-> m, path |-> "expired"]
       ELSE [ret |-> MapGet(m, id), map |-> m, path |-> "fresh"]

PS_getPlaylist(m, id, t) ==
  IF ~MapHas(m, id) THEN [ret |-> Null, map |-> m, path |-> "absent"]
  ELSE IF PS_playlistExpired(MapGet(m, id), t)
       THEN [ret |-> Null, map |-> MapDelete(m, id), path |-> "expired"]
       ELSE [ret |-> MapGet(m, id), map |-> m, path |-> "fresh"]

PS_storeSearchResult(m, query, result, t) ==
  cleanExpiredSearchResults(
    MapSet(m, query, [key |-> query, query |-> query, result |-> result,
                      timestamp |-> t]), t)

PS_getSearchResult(m, query, t) ==
  IF ~MapHas(m, query) THEN [ret |-> Null, map |-> m, path |-> "absent"]
  ELSE IF PS_searchExpired(MapGet(m, query), t)
       THEN [ret |-> Null, map |-> MapDelete(m, query), path |-> "expired"]
       ELSE [ret |-> MapGet(m, query).result, map |-> m, path |-> "fresh"]

(***************************************************************************)
(* JavaScript values of a candidate's fields.                              *)
(***************************************************************************)
Str(s) == [type |-> "string", chars |-> s]

Num(n) == [type |-> "number", n |-> n]

Truthy(v) ==
  /\ v # Null
  /\ ~(v.type = "string" /\ v.chars = <<>>)
  /\ ~(v.type = "number" /\ v.n = 0)

IsString(v) == v.type = "string"

Song(title, artist) == [title |-> title, artist |-> artist]

(* The candidates resolution is exercised with. *)
S1 == Song(Str(<<"a">>), Str(<<"x">>))
S2 == Song(Str(<<"b">>), Str(<<>>))
S3 == Song(Str(<<"z">>), Str(<<"x">>))
S4 == Song(Str(<<" ", "a">>), Str(<<"x", " ">>))
S5 == Song(Num(7), Str(<<"x">>))
S6 == Song(Str(<<>>), Str(<<"x">>))
S7 == Song(Str(<<"c">>), Str(<<"y">>))
S8 == Song(Str(<<"d">>), Str(<<"y">>))
S9 == Song(Str(<<"e">>), Str(<<"x">>))

(* `${title.trim()} ${artist ? artist.trim() : ""}`.trim() *)
buildQuery(song) ==
  trim(trim(song.title.chars) \o <<" ">> \o
       (IF Truthy(song.artist) THEN trim(song.artist.chars) ELSE <<>>))

(* title.trim() / artist.trim() is a TypeError on a value that is no string *)
buildQueryThrows(song) ==
  \/ ~IsString(song.title)
  \/ (Truthy(song.artist) /\ ~IsString(song.artist))

(***************************************************************************)
(* The providers (environment).  A provider knows a fixed catalogue: a     *)
(* search for a query of the catalogue returns results, any other search   *)
(* returns none; any single request may also fail.                         *)
(***************************************************************************)
CATALOG ==
  { <<"a", " ", "x">>, <<"b">>, <<"c", " ", "y">>, <<"d", " ", "y">>,
    <<"e", " ", "x">> }

ProviderAnswer(query) == IF query \in CATALOG THEN "match" ELSE "empty"

(* what searchTrack builds from the best match of a YouTube Music search *)
YtTrack(query) == [type |-> "track", title |-> query, videoId |-> query]

(* the uri of the best match of a Spotify search *)
SpotifyUri(query) == [type |-> "uri", of |-> query]

(***************************************************************************)
(* A value in flight or thrown.                                            *)
(***************************************************************************)
Pending == [type |-> "pending"]

Thrown == [type |-> "thrown"]

(***************************************************************************)
(* YouTubeMusicService.searchTrack, up to its first suspension on the      *)
(* provider: what it does to the search cache and whether it returns,      *)
(* throws or issues a request.                                             *)
(***************************************************************************)
YT_searchTrackBegin(song, cache, t) ==
  IF ~Truthy(song.title)
  THEN [kind |-> "return", value |-> Null, cache |-> cache, path |-> "notitle"]
  ELSE IF buildQueryThrows(song)
  THEN [kind |-> "throw", value |-> Thrown, cache |-> cache, path |-> "threw"]
  ELSE LET got == PS_getSearchResult(cache, buildQuery(song), t) IN
       IF got.ret # Null
       THEN [kind |-> "return", value |-> got.ret, cache |-> got.map,
             path |-> "cached"]
       ELSE [kind |-> "request", value |-> Pending, cache |-> got.map,
             path |-> "request"]

(* mutant of YT_searchTrackEnd: a search without a match still yields a track *)
YT_searchTrackEndFabricates(song, answer, cache, t) ==
  IF answer = "error"
  THEN [value |-> Null, cache |-> cache]
  ELSE [value |-> YtTrack(buildQuery(song)),
        cache |-> PS_storeSearchResult(cache, buildQuery(song),
                                       YtTrack(buildQuery(song)), t)]

(* searchTrack after the provider has answered `answer` to its request *)
YT_searchTrackEnd(song, answer, cache, t) ==
  IF answer = "error"
  THEN [value |-> Null, cache |-> cache]
  ELSE IF answer = "empty"
  THEN [value |-> Null,
        cache |-> PS_storeSearchResult(cache, buildQuery(song), Null, t)]
  ELSE [value |-> YtTrack(buildQuery(song)),
        cache |-> PS_storeSearchResult(cache, buildQuery(song),
                                       YtTrack(buildQuery(song)), t)]

(* mutant of YT_batchTask: the per-song catch is missing *)
YT_batchTaskNoCatch(song, value) ==
  IF value = Thrown THEN Thrown
  ELSE [title |-> song.title, artist |-> song.artist, youtubeMusic |-> value]

(* the async callback of batch.map in searchMultipleTracks: try / catch *)
YT_batchTask(song, value) ==
  IF value = Thrown
  THEN [title |-> song.title, artist |-> song.artist, youtubeMusic |-> Null]
  ELSE [title |-> song.title, artist |-> song.artist, youtubeMusic |-> value]

(***************************************************************************)
(* searchSpotifyTrack: every failure after the title check is caught inside *)
(***************************************************************************)
SP_searchTrackBegin(song) ==
  IF ~Truthy(song.title)
  THEN [kind |-> "return", value |-> Null, path |-> "notitle"]
  ELSE IF buildQueryThrows(song)
  THEN [kind |-> "return", value |-> Null, path |-> "threw"]
  ELSE [kind |-> "request", value |-> Pending, path |-> "request"]

SP_searchTrackEnd(song, answer) ==
  IF answer = "match" THEN SpotifyUri(buildQuery(song)) ELSE Null

(* the async callback of batch.map in searchMultipleSpotifyTracks *)
SP_batchTask(song, uri) ==
  IF uri = Thrown
  THEN [title |-> song.title, artist |-> song.artist, uri |-> Null,
        found |-> FALSE]
  ELSE [title |-> song.title, artist |-> song.artist, uri |-> uri,
        found |-> uri # Null]

(***************************************************************************)
(* resolveMany: searchMultipleTracks and searchMultipleSpotifyTracks.      *)
(* A call is a record: its provider, where it stands (pc), the candidates, *)
(* the loop index i, the values array of Promise.all over the current      *)
(* batch (slots), the positions of the batch whose provider request is in  *)
(* flight (pending), the results pushed so far, and, for the claims, the   *)
(* path each candidate took (paths), the number of failed requests and    *)
(* whether some request completed before an earlier one of its batch.      *)
(***************************************************************************)
YT_batchSize == 3

SP_batchSize == 5

batchSize(provider) == IF provider = "yt" THEN YT_batchSize ELSE SP_batchSize

Min(a, b) == IF a < b THEN a ELSE b

(* mutant of Batch: the whole remainder of the list is taken as one batch *)
BatchUnbounded(songs, i, size) == SubSeq(songs, i + 1, Len(songs))

(* songs.slice(i, i + batchSize) *)
Batch(songs, i, size) == SubSeq(songs, i + 1, Min(i + size, Len(songs)))

CallIds == {1, 2}

IdleCall ==
  [provider |-> "none", pc |-> "idle", songs |-> <<>>, i |-> 0, token |-> "none",
   slots |-> <<>>, pending |-> {}, results |-> <<>>, paths |-> <<>>,
   failures |-> 0, reordered |-> FALSE]

RECURSIVE YT_beginTasks(_, _, _)
YT_beginTasks(batch, cache, t) ==
  IF batch = <<>> THEN [slots |-> <<>>, paths |-> <<>>, cache |-> cache]
  ELSE LET b == YT_searchTrackBegin(Head(batch), cache, t)
           rest == YT_beginTasks(Tail(batch), b.cache, t)
       IN [slots |-> <<IF b.kind = "request" THEN Pending
                       ELSE YT_batchTask(Head(batch), b.value)>> \o rest.slots,
           paths |-> <<b.path>> \o rest.paths,
           cache |-> rest.cache]

SP_beginTasks(batch) ==
  [slots |-> [k \in 1..Len(batch) |->
                IF SP_searchTrackBegin(batch[k]).kind = "request" THEN Pending
                ELSE SP_batchTask(batch[k], SP_searchTrackBegin(batch[k]).value)],
   paths |-> [k \in 1..Len(batch) |-> SP_searchTrackBegin(batch[k]).path]]

(* mutant of Settle: a value takes the first free place, in arrival order *)
SettleInArrivalOrder(slots, k, value) ==
  [slots EXCEPT ![CHOOSE j \in 1..Len(slots) :
                    /\ slots[j] = Pending
                    /\ \A h \in 1..(j - 1) : slots[h] # Pending] = value]

(* Promise.all keeps the value of promise k at position k *)
Settle(slots, k, value) == [slots EXCEPT ![k] = value]

(* `await Promise.all(batchPromises)` and the rest of the loop body: a      *)
(* rejection rejects the call; once every promise has a value the batch is *)
(* pushed and the loop pauses before the next batch, or returns.           *)
AfterBatch(call) ==
  IF \E k \in 1..Len(call.slots) : call.slots[k] = Thrown
  THEN [call EXCEPT !.pc = "thrown"]
  ELSE IF call.pending # {} THEN call
  ELSE [call EXCEPT
          !.results = @ \o call.slots,
          !.slots = <<>>,
          !.pc = IF call.i + batchSize(call.provider) < Len(call.songs)
                 THEN "pause" ELSE "done"]

(* one iteration of the for loop, up to `await Promise.all` *)
BeginBatch(call, cache, t) ==
  LET batch == Batch(call.songs, call.i, batchSize(call.provider))
      yt == YT_beginTasks(batch, cache, t)
      sp == SP_beginTasks(batch)
      slots == IF call.provider = "yt" THEN yt.slots ELSE sp.slots
      paths == IF call.provider = "yt" THEN yt.paths ELSE sp.paths
  IN [call |-> AfterBatch([call EXCEPT
                             !.pc = "batch",
                             !.slots = slots,
                             !.pending = {k \in 1..Len(slots) : slots[k] = Pending},
                             !.paths = @ \o paths]),
      cache |-> IF call.provider = "yt" THEN yt.cache ELSE cache]

(* the call from its first line to its first suspension *)
BeginCall(provider, token, songs, cache, t) ==
  IF songs = <<>>
  THEN [call |-> [IdleCall EXCEPT !.provider = provider, !.token = token,
                                  !.pc = "done"],
        cache |-> cache]
  ELSE BeginBatch([IdleCall EXCEPT !.provider = provider, !.token = token,
                                   !.songs = songs], cache, t)

(* the provider answers the request of position k of the current batch *)
CompleteTask(call, k, answer, cache, t) ==
  LET song == call.songs[call.i + k]
      yt == YT_searchTrackEnd(song, answer, cache, t)
      value == IF call.provider = "yt"
               THEN YT_batchTask(song, yt.value)
               ELSE SP_batchTask(song, SP_searchTrackEnd(song, answer))
  IN [call |-> AfterBatch([call EXCEPT
                             !.slots = Settle(@, k, value),
                             !.pending = @ \ {k},
                             !.paths[call.i + k] = answer,
                             !.reordered = @ \/ \E h \in call.pending : h < k,
                             !.failures = IF answer = "error" /\ call.token # "expired"
                                          THEN @ + 1 ELSE @]),
      cache |-> IF call.provider = "yt" THEN yt.cache ELSE cache]

(* the answers the provider may give to the request of candidate `song` *)
Answers(call, song) ==
  IF call.token = "expired" THEN {"error"}
  ELSE {ProviderAnswer(buildQuery(song))}
       \cup (IF call.failures < MaxFailures THEN {"error"} ELSE {})

InFlight(call) == Cardinality(call.pending)

(***************************************************************************)
(* Generation (aiService.js).  The model's raw answer, after JSON.parse,   *)
(* is an object, or the model call or the parsing threw.                   *)
(***************************************************************************)
Arr(items) == [type |-> "array", items |-> items]

IsArray(v) == v.type = "array"

Obj(title, description, songs) ==
  [type |-> "object", title |-> title, description |-> description,
   songs |-> songs]

(* the answers the model is exercised with *)
RawOutputs ==
  { Thrown,
    Obj(Str(<<"t">>), Str(<<"d">>), Arr(<<S1, S2, S7, S4>>)),
    Obj(Str(<<"t">>), Str(<<"d">>), Arr(<<S1, S3, S6>>)),
    Obj(Str(<<"t">>), Str(<<"d">>), Arr(<<S3>>)),
    Obj(Str(<<"t">>), Str(<<"d">>), Arr(<<S1, S5>>)),
    Obj(Str(<<"t">>), Str(<<"d">>), Arr(<<>>)),
    Obj(Str(<<"t">>), Str(<<"d">>), Null),
    Obj(Str(<<>>), Str(<<"d">>), Arr(<<S2>>)) }

MAX_SONGS == 10

(* mutant of generateClassicalPlaylist: the list is never cut *)
generateClassicalUncut(raw) ==
  IF raw = Thrown \/ raw.type # "object" THEN Thrown
  ELSE IF ~Truthy(raw.title) \/ ~Truthy(raw.description) \/ ~IsArray(raw.songs)
  THEN Thrown
  ELSE IF Len(raw.songs.items) = 0 THEN Thrown
  ELSE IF \E k \in 1..Len(raw.songs.items) :
            ~IsString(raw.songs.items[k].title) \/ ~IsString(raw.songs.items[k].artist)
  THEN Thrown
  ELSE raw

(* mutant of generateClassicalPlaylist: the elements are not validated *)
generateClassicalAnySongs(raw) ==
  IF raw = Thrown \/ raw.type # "object" THEN Thrown
  ELSE IF ~Truthy(raw.title) \/ ~Truthy(raw.description) \/ ~IsArray(raw.songs)
  THEN Thrown
  ELSE IF Len(raw.songs.items) = 0 THEN Thrown
  ELSE [raw EXCEPT !.songs.items = SubSeq(@, 1, Min(Len(@), MAX_SONGS))]

(* generateClassicalPlaylist: the validation of the parsed answer; reading *)
(* .title of null is a TypeError, of a number or an array undefined        *)
generateClassicalPlaylist(raw) ==
  IF raw = Thrown \/ raw.type # "object" THEN Thrown
  ELSE IF ~Truthy(raw.title) \/ ~Truthy(raw.description) \/ ~IsArray(raw.songs)
  THEN Thrown
  ELSE IF Len(raw.songs.items) = 0 THEN Thrown
  ELSE IF \E k \in 1..Len(raw.songs.items) :
            ~IsString(raw.songs.items[k].title) \/ ~IsString(raw.songs.items[k].artist)
  THEN Thrown
  ELSE [raw EXCEPT !.songs.items = SubSeq(@, 1, Min(Len(@), MAX_SONGS))]

(* mutant of generateFallbackClassicalPlaylist: a failure is swallowed *)
generateFallbackSwallows(raw) ==
  IF raw = Thrown THEN Obj(Str(<<"t">>), Str(<<"d">>), Arr(<<S1>>)) ELSE raw

(* generateFallbackClassicalPlaylist: the parsed answer as it is,          *)
(* unvalidated; only rawData.title in the log line throws, on null         *)
generateFallbackClassicalPlaylist(raw) == IF raw = Null THEN Thrown ELSE raw

(* generateFallbackClassicalPlaylist of the second aiService module        *)
(* (part_007): the validation of the primary generation                    *)
P7_generateFallbackClassicalPlaylist(raw) == generateClassicalPlaylist(raw)

(***************************************************************************)
(* The text of a model answer.  A text is described by what the parsers    *)
(* can see in it: whether it is wrapped in a ``` fence, its form, and the  *)
(* document it writes down.  Form "json" is strict JSON; "single" is the   *)
(* same written with single quotes, which JSON.parse rejects and           *)
(* normalizeJsonQuotes repairs; "loose" is rejected even after the repair  *)
(* (a trailing comma, prose around it) but still shows its keys to the     *)
(* regular expressions; "garbage" shows nothing, as the empty string;      *)
(* "overflow" is a text on which the regular expression engine itself      *)
(* throws (a RangeError on an oversized input), after both JSON.parse      *)
(* attempts have failed.                                                   *)
(***************************************************************************)
Text(fence, form, doc) ==
  [type |-> "text", fence |-> fence, form |-> form, doc |-> doc]

LongList == <<S1, S2, S3, S4, S7, S6, S1, S2, S3, S4, S7>>

Docs ==
  { Obj(Str(<<"t">>), Str(<<"d">>), Arr(<<S1, S2>>)),
    Obj(Str(<<"t">>), Str(<<"d">>), Arr(LongList)),
    Obj(Str(<<"t">>), Str(<<"d">>), Arr(SubSeq(LongList, 1, 10))),
    Obj(Str(<<"t">>), Str(<<"d">>), Arr(<<>>)),
    Obj(Str(<<"t">>), Str(<<"d">>), Null),
    Obj(Str(<<>>), Str(<<"d">>), Arr(<<S2>>)),
    Obj(Null, Str(<<"d">>), Arr(<<S7, S2>>)),
    Obj(Str(<<"t">>), Null, Arr(<<S1>>)),
    Obj(Str(<<"t">>), Str(<<"d">>), Arr(<<S1, S5>>)),
    Obj(Str(<<"t">>), Str(<<"d">>), Arr(<<S6, S2>>)),
    Num(42),
    Null,
    Arr(<<S1>>) }

Texts ==
  {Text(fence, form, doc) :
     fence \in BOOLEAN, form \in {"json", "loose"}, doc \in Docs}
  \cup {Text(fence, "single", doc) :
          fence \in BOOLEAN, doc \in {d \in Docs : d.type = "object"}}
  \cup {Text(fence, form, Null) :
          fence \in BOOLEAN, form \in {"garbage", "overflow"}}

(* JSON.parse of the text once trimmed and taken out of its fence *)
JSONparse(text) == IF text.form = "json" THEN text.doc ELSE Thrown

(* normalizeJsonQuotes: single quotes around keys and values become double *)
normalizeJsonQuotes(text) ==
  IF text.form = "single" THEN [text EXCEPT !.form = "json"] ELSE text

(* what ([^'"`\n]+) captures of a value: the characters of a non-empty     *)
(* string, the digits of a number, nothing otherwise                       *)
Captured(v) ==
  IF v.type = "string" /\ v.chars # <<>> THEN <<trim(v.chars)>>
  ELSE IF v.type = "number" THEN <<<<"7">>>>
  ELSE <<>>

(* the songs createValidJsonFromText pushes: the {...} groups of the songs *)
(* section in which both a title and an artist are captured                *)
RECURSIVE ExtractSongs(_)
ExtractSongs(items) ==
  IF items = <<>> THEN <<>>
  ELSE (IF Captured(Head(items).title) # <<>> /\ Captured(Head(items).artist) # <<>>
        THEN <<Song(Str(Captured(Head(items).title)[1]),
                    Str(Captured(Head(items).artist)[1]))>>
        ELSE <<>>) \o ExtractSongs(Tail(items))

SongItems(doc) ==
  IF doc.type = "object" /\ IsArray(doc.songs) THEN doc.songs.items
  ELSE IF doc.type = "array" THEN doc.items
  ELSE <<>>

(* the first `title` of the text: the playlist's, else the first song's *)
FirstTitle(doc) ==
  IF doc.type = "object" /\ Captured(doc.title) # <<>> THEN Captured(doc.title)
  ELSE IF \E k \in 1..Len(SongItems(doc)) : Captured(SongItems(doc)[k].title) # <<>>
  THEN Captured(SongItems(doc)[
         CHOOSE k \in 1..Len(SongItems(doc)) :
           /\ Captured(SongItems(doc)[k].title) # <<>>
           /\ \A h \in 1..(k - 1) : Captured(SongItems(doc)[h].title) = <<>>].title)
  ELSE <<>>

(* the playlist the catch of createValidJsonFromText returns *)
EmergencyPlaylist ==
  Obj(Str(<<"Emergency Classical Playlist">>),
      Str(<<"System-generated backup playlist">>),
      Arr(<<Song(Str(<<"Canon in D Major">>), Str(<<"Johann Pachelbel">>)),
            Song(Str(<<"Clair de Lune">>), Str(<<"Claude Debussy">>)),
            Song(Str(<<"Ave Maria">>), Str(<<"Franz Schubert">>)),
            Song(Str(<<"Eine kleine Nachtmusik">>),
                 Str(<<"Wolfgang Amadeus Mozart">>)),
            Song(Str(<<"Spring (The Four Seasons)">>), Str(<<"Antonio Vivaldi">>)),
            Song(Str(<<"Fur Elise">>), Str(<<"Ludwig van Beethoven">>)),
            Song(Str(<<"Gymnopedie No. 1">>), Str(<<"Erik Satie">>)),
            Song(Str(<<"The Swan">>), Str(<<"Camille Saint-Saens">>)),
            Song(Str(<<"Barcarolle">>), Str(<<"Jacques Offenbach">>)),
            Song(Str(<<"Air on the G String">>),
                 Str(<<"Johann Sebastian Bach">>))>>))

(* the object createValidJsonFromText builds by hand in its try block *)
validJson(text) ==
  LET doc == IF text.form \in {"garbage", "overflow"} THEN Null ELSE text.doc
      title == FirstTitle(doc)
      desc == IF doc.type = "object" THEN Captured(doc.description) ELSE <<>>
      songs == ExtractSongs(SongItems(doc))
  IN Obj(IF title # <<>> THEN Str(title[1]) ELSE Str(<<"Classical Playlist">>),
         IF desc # <<>> THEN Str(desc[1])
         ELSE Str(<<"A curated collection of classical music">>),
         Arr(SubSeq(songs, 1, Min(Len(songs), MAX_SONGS))))

(* mutant of createValidJsonFromText: the catch builds the defaults *)
createValidJsonNoEmergency(text) == validJson(text)

(* createValidJsonFromText: the last resort of the repairing parser.  On a *)
(* string, match, trim and slice do not throw, so its catch is entered     *)
(* only when the engine fails on the text                                  *)
createValidJsonFromText(text) ==
  IF text.form = "overflow" THEN EmergencyPlaylist ELSE validJson(text)

(* parseJsonFromGeminiResponse of services/aiService.js: the fence is      *)
(* removed, JSON.parse, and a failure is thrown on                         *)
parseJsonFromGeminiResponse(text) == JSONparse([text EXCEPT !.fence = FALSE])

(* parseJsonFromGeminiResponse of the second aiService module (part_007):  *)
(* JSON.parse, then quotes normalized, then manual extraction              *)
P7_parseJsonFromGeminiResponse(text) ==
  IF JSONparse([text EXCEPT !.fence = FALSE]) # Thrown
  THEN JSONparse([text EXCEPT !.fence = FALSE])
  ELSE IF JSONparse(normalizeJsonQuotes([text EXCEPT !.fence = FALSE])) # Thrown
  THEN JSONparse(normalizeJsonQuotes([text EXCEPT !.fence = FALSE]))
  ELSE createValidJsonFromText([text EXCEPT !.fence = FALSE])

(***************************************************************************)
(* The generate request (getPlaylist) and the lookup (getPlaylistById).    *)
(* A request is a record: where it stands (pc), its playlistId, its        *)
(* Spotify token, the generated playlistData, the finalPlaylist, the       *)
(* response sent, and for the claims how often each generation was called, *)
(* which of them threw, whether the Spotify branch failed and when the     *)
(* playlist was handed to the cache.                                       *)
(***************************************************************************)
Tokens == {"none", "valid", "expired"}

(* mutant of Escalates: the fallback is asked whatever the primary did *)
EscalatesAlways(out) == TRUE

(* try { primary } catch { fallback }: the catch runs iff the primary threw *)
Escalates(out) == out = Thrown

(* mutant of responseStatus *)
responseStatusAlwaysSuccess(found, total) == "success"

(* foundYTSongs.length === playlistData.songs.length ? SUCCESS : PARTIAL *)
responseStatus(found, total) == IF found = total THEN "success" ELSE "partial"

Respond(r, http, status, data) ==
  [r EXCEPT !.pc = "responded",
            !.response = [http |-> http, status |-> status, data |-> data]]

(* songsWithVideoIds.filter(song => song.youtubeMusic !== null) *)
foundYTSongs(results) == SelectSeq(results, LAMBDA s : s.youtubeMusic # Null)

(* mutant of NoneFound: the request goes on with no song found *)
NoneFoundIgnored(found) == FALSE

(* if (foundYTSongs.length === 0) *)
NoneFound(found) == Len(found) = 0

(* spotifyResults.filter(song => song.found) *)
foundSpotifyTracks(results) == SelectSeq(results, LAMBDA s : s.found)

finalSong(s) ==
  [title |-> s.youtubeMusic.title, videoId |-> s.youtubeMusic.videoId,
   originalTitle |-> s.title, originalArtist |-> s.artist]

finalPlaylist(r, found, spotify, t) ==
  [type |-> "playlist",
   id |-> r.id,
   title |-> r.playlistData.title,
   description |-> r.playlistData.description,
   totalSongs |-> Len(found),
   originalSongsCount |-> Len(r.playlistData.songs.items),
   songs |-> [k \in 1..Len(found) |-> finalSong(found[k])],
   createdAt |-> t,
   spotify |-> spotify]

spotifyPlaylistData(r, tracks) ==
  [type |-> "spotifyPlaylist", tracksAdded |-> Len(tracks),
   totalRequested |-> Len(r.playlistData.songs.items)]

(* steps 5 and 6 of getPlaylist: the final playlist is built and handed to *)
(* the cache as store.storePlaylist(playlistId, finalPlaylist), whose      *)
(* single parameter receives playlistId                                    *)
Finalize(r, spotify, found, m, n, t) ==
  [req |-> [r EXCEPT !.pc = "stored",
                     !.final = finalPlaylist(r, found, spotify, t),
                     !.storedAt = t],
   playlists |-> PS_storePlaylist(m, r.id, n, t)]

(* step 3 of getPlaylist once playlistData is there: songs.length is a     *)
(* TypeError when songs is no array; otherwise resolution starts           *)
AfterGeneration(r, data, cache, t) ==
  IF data.type # "object" \/ ~IsArray(data.songs)
  THEN [req |-> Respond(r, 500, "error", Null), call |-> IdleCall, cache |-> cache]
  ELSE [req |-> [r EXCEPT !.pc = "youtube", !.playlistData = data,
                          !.resolveCalls = @ + 1],
        call |-> BeginCall("yt", "none", data.songs.items, cache, t).call,
        cache |-> BeginCall("yt", "none", data.songs.items, cache, t).cache]

(***************************************************************************)
(* refinePlaylistWithAudioFeatures (both aiService modules alike), from    *)
(* the parsed answer of the model on.  A track is a search result with its *)
(* id and audio features.                                                  *)
(***************************************************************************)
Track(song) ==
  [title |-> song.title, artist |-> song.artist,
   uri |-> SpotifyUri(buildQuery(song)), found |-> TRUE,
   id |-> Str(buildQuery(song))]

(* a song object of the model's answer *)
Refined(title, artist, uri) == [title |-> title, artist |-> artist, uri |-> uri]

(* songsWithFeatures.filter(song => song.uri && song.id) *)
validSongsForRefinement(songsWithFeatures) ==
  SelectSeq(songsWithFeatures, LAMBDA x : x.uri # Null /\ x.id # Null)

(* mutant of refinePlaylistWithAudioFeatures: unknown URIs are let through *)
refineUnverified(songsWithFeatures, answer) ==
  IF validSongsForRefinement(songsWithFeatures) = <<>>
  THEN Arr([k \in 1..Len(SelectSeq(songsWithFeatures, LAMBDA x : x.uri # Null)) |->
          Refined(SelectSeq(songsWithFeatures, LAMBDA x : x.uri # Null)[k].title,
                  SelectSeq(songsWithFeatures, LAMBDA x : x.uri # Null)[k].artist,
                  SelectSeq(songsWithFeatures, LAMBDA x : x.uri # Null)[k].uri)])
  ELSE IF answer = Thrown \/ ~IsArray(answer) THEN Thrown
  ELSE IF \E k \in 1..Len(answer.items) :
            \/ ~Truthy(answer.items[k].title)
            \/ ~Truthy(answer.items[k].artist)
            \/ answer.items[k].uri = Null
  THEN Thrown
  ELSE answer

refinePlaylistWithAudioFeatures(songsWithFeatures, answer) ==
  IF validSongsForRefinement(songsWithFeatures) = <<>>
  THEN Arr([k \in 1..Len(SelectSeq(songsWithFeatures, LAMBDA x : x.uri # Null)) |->
          Refined(SelectSeq(songsWithFeatures, LAMBDA x : x.uri # Null)[k].title,
                  SelectSeq(songsWithFeatures, LAMBDA x : x.uri # Null)[k].artist,
                  SelectSeq(songsWithFeatures, LAMBDA x : x.uri # Null)[k].uri)])
  ELSE IF answer = Thrown \/ ~IsArray(answer) THEN Thrown
  ELSE IF \E k \in 1..Len(answer.items) :
            \/ ~Truthy(answer.items[k].title)
            \/ ~Truthy(answer.items[k].artist)
            \/ answer.items[k].uri = Null
  THEN Thrown
  ELSE IF \E k \in 1..Len(answer.items) :
            answer.items[k].uri \notin
              {validSongsForRefinement(songsWithFeatures)[j].uri :
                 j \in 1..Len(validSongsForRefinement(songsWithFeatures))}
  THEN Thrown
  ELSE answer

(* the eligible tracks and the song objects refinement is exercised with *)
Eligible == <<Track(S1), Track(S2), Track(S7)>>

RefinedItems ==
  { Refined(S1.title, S1.artist, SpotifyUri(buildQuery(S1))),
    Refined(S2.title, S1.artist, SpotifyUri(buildQuery(S2))),
    Refined(S7.title, S7.artist, SpotifyUri(buildQuery(S7))),
    Refined(S3.title, S3.artist, SpotifyUri(buildQuery(S3))),
    Refined(S1.title, S1.artist, Null) }

MaxRefined == 3

RefineAnswers ==
  {Thrown, Num(42)}
  \cup {Arr(items) : items \in UNION {[1..n -> RefinedItems] : n \in 0..MaxRefined}}

(* the same tracks, the second of them without a track id *)
PartlyEligible == <<Track(S1), [Track(S2) EXCEPT !.id = Null], Track(S7)>>

RefineInputs ==
  {[type |-> "refine", songs |-> songs, answer |-> a] :
     songs \in {Eligible, PartlyEligible}, a \in RefineAnswers}
  \cup {[type |-> "refine", songs |-> <<[Track(S1) EXCEPT !.id = Null]>>,
         answer |-> Thrown]}

(***************************************************************************)
(* The Fuzzy Match Scorer: findBestMatch (YouTube Music) and               *)
(* findBestSpotifyMatch.  Scores are kept as integers, 3000 times the      *)
(* score of the code: similarities are fractions over at most MaxWords     *)
(* words, the weights are 0.7 and 0.3, the penalty is 0.8 and the bonus    *)
(* is 0.1.                                                                 *)
(***************************************************************************)
RECURSIVE splitWords(_, _)
splitWords(chars, word) ==
  IF chars = <<>> THEN (IF word = <<>> THEN <<>> ELSE <<word>>)
  ELSE IF Head(chars) = " "
  THEN (IF word = <<>> THEN <<>> ELSE <<word>>) \o splitWords(Tail(chars), <<>>)
  ELSE splitWords(Tail(chars), Append(word, Head(chars)))

(* similarity(str1, str2), times 60; "".split(/\s+/) is [""] *)
similarity60(str1, str2) ==
  IF ~Truthy(str1) \/ ~Truthy(str2) THEN 0
  ELSE LET s1 == trim(toLowerCase(str1.chars))
           s2 == trim(toLowerCase(str2.chars))
           words1 == IF s1 = <<>> THEN << <<>> >> ELSE splitWords(s1, <<>>)
           words2 == IF s2 = <<>> THEN << <<>> >> ELSE splitWords(s2, <<>>)
           common == Len(SelectSeq(words1, LAMBDA w :
                                     \E j \in 1..Len(words2) : words2[j] = w))
           longest == IF Len(words1) > Len(words2) THEN Len(words1) ELSE Len(words2)
       IN IF s1 = s2 THEN 60
          ELSE (60 * common) \div longest

(* a search result: name, artist, whether shorter than a minute (YouTube   *)
(* Music) and whether its popularity is above 50 (Spotify)                 *)
Result(name, artist, short, popular) ==
  [name |-> name, artist |-> artist, short |-> short, popular |-> popular]

score3000(provider, result, originalTitle, originalArtist) ==
  LET base == 7 * similarity60(result.name, originalTitle)
              + (IF Truthy(originalArtist) /\ Truthy(result.artist)
                 THEN 3 * similarity60(result.artist, originalArtist) ELSE 0)
  IN IF provider = "yt"
     THEN (IF result.short THEN 4 * base ELSE 5 * base)
     ELSE 5 * base + (IF result.popular THEN 300 ELSE 0)

(* mutant of sortedFirst: of the results with the highest score, the last *)
sortedLastOfTies(provider, results, originalTitle, originalArtist) ==
  results[CHOOSE k \in 1..Len(results) :
            /\ \A j \in 1..Len(results) :
                 score3000(provider, results[j], originalTitle, originalArtist)
                   <= score3000(provider, results[k], originalTitle, originalArtist)
            /\ \A j \in (k + 1)..Len(results) :
                 score3000(provider, results[j], originalTitle, originalArtist)
                   < score3000(provider, results[k], originalTitle, originalArtist)]

(* scoredResults.sort((a, b) => b.score - a.score)[0]: the sort is stable, *)
(* so of the results with the highest score the earliest comes first       *)
sortedFirst(provider, results, originalTitle, originalArtist) ==
  results[CHOOSE k \in 1..Len(results) :
            /\ \A j \in 1..Len(results) :
                 score3000(provider, results[j], originalTitle, originalArtist)
                   <= score3000(provider, results[k], originalTitle, originalArtist)
            /\ \A j \in 1..(k - 1) :
                 score3000(provider, results[j], originalTitle, originalArtist)
                   < score3000(provider, results[k], originalTitle, originalArtist)]

(* mutant of findBestMatch: a result that shares nothing is no match *)
findBestMatchAboveZero(provider, results, originalTitle, originalArtist) ==
  IF Len(results) = 0 THEN Null
  ELSE IF score3000(provider,
                    sortedFirst(provider, results, originalTitle, originalArtist),
                    originalTitle, originalArtist) = 0
  THEN Null
  ELSE sortedFirst(provider, results, originalTitle, originalArtist)

findBestMatch(provider, results, originalTitle, originalArtist) ==
  IF Len(results) = 0 THEN Null
  ELSE IF Len(results) = 1 THEN results[1]
  ELSE sortedFirst(provider, results, originalTitle, originalArtist)

SearchResults ==
  { Result(Str(<<"a">>), Str(<<"x">>), FALSE, FALSE),
    Result(Str(<<"A", " ", "b">>), Str(<<"x">>), FALSE, TRUE),
    Result(Str(<<"a", " ", "b">>), Null, TRUE, FALSE),
    Result(Str(<<"z">>), Str(<<"y">>), FALSE, FALSE),
    Result(Str(<<"a">>), Str(<<"x">>), FALSE, TRUE) }

MaxResults == 3

MatchInputs ==
  {[type |-> "match", provider |-> provider, results |-> results,
    title |-> query.title, artist |-> query.artist] :
     provider \in {"yt", "sp"},
     results \in UNION {[1..n -> SearchResults] : n \in 0..MaxResults},
     query \in {Song(Str(<<"a", " ", "b">>), Str(<<"x">>)),
                Song(Str(<<"a">>), Null)}}

(***************************************************************************)
(* addTracksToSpotifyPlaylist, up to its request.  A uri is written as the *)
(* number of its track.                                                    *)
(***************************************************************************)
MAX_TRACKS == 100

(* Array.from(new Set(trackUris)): the first occurrences, in order *)
uniqueTrackUris(trackUris) ==
  LET added == SelectSeq([k \in 1..Len(trackUris) |-> k],
                         LAMBDA k : \A j \in 1..(k - 1) :
                                      trackUris[j] # trackUris[k])
  IN [i \in 1..Len(added) |-> trackUris[added[i]]]

(* mutant of addTracksRequest: all distinct uris go into the one request *)
addTracksRequestUncut(trackUris) ==
  IF Len(trackUris) = 0 THEN Null
  ELSE [type |-> "request", uris |-> uniqueTrackUris(trackUris)]

(* the body of the POST, or null when nothing is sent *)
addTracksRequest(trackUris) ==
  IF Len(trackUris) = 0 THEN Null
  ELSE [type |-> "request",
        uris |-> IF Len(uniqueTrackUris(trackUris)) > MAX_TRACKS
                 THEN SubSeq(uniqueTrackUris(trackUris), 1, MAX_TRACKS)
                 ELSE uniqueTrackUris(trackUris)]

MaxUris == 102

Range(n) == [k \in 1..n |-> k]

Doubled(n) == [k \in 1..(2 * n) |-> (k + 1) \div 2]

UriListSizes == {0, 1, 2, MAX_TRACKS - 1, MAX_TRACKS, MAX_TRACKS + 1, MaxUris}

AddInputs ==
  {[type |-> "add", trackUris |-> uris] :
     uris \in {Range(n) \o Range(d) : n \in UriListSizes, d \in 0..3}
              \cup {Doubled(n) : n \in UriListSizes}
              \cup {Range(3) \o [k \in 1..n |-> n + 1 - k] : n \in UriListSizes}}

(* the candidates searchSpotifyTrack is asked for, and what the provider   *)
(* may answer to one search: a match, none, a failure, or HTTP 401         *)
SearchInputs ==
  {[type |-> "search", song |-> song] : song \in {S1, S2, S3, S4, S7}}

SearchAnswers == {"match", "empty", "error", "unauthorized"}

(***************************************************************************)
(* The clock.  Time advances by one millisecond, or to the instant at      *)
(* which some cached entry is exactly as old as its expiry, or to one      *)
(* millisecond past it; these are the instants at which the outcome of an  *)
(* expiry test changes.  The clock is read as advancing between the steps  *)
(* of a request, not between the answers to the requests of one batch.     *)
(***************************************************************************)
ExpiryInstants ==
  {im_playlists[i].createdAt + cacheExpiry : i \in 1..Len(im_playlists)}
  \cup {im_searchCache[i].timestamp + IM_SEARCH_EXPIRY : i \in 1..Len(im_searchCache)}
  \cup {ps_playlists[i].timestamp + EXPIRATION_TIME : i \in 1..Len(ps_playlists)}
  \cup {ps_searchResults[i].timestamp + SEARCH_EXPIRATION_TIME :
          i \in 1..Len(ps_searchResults)}

Tick ==
  /\ ticks < MaxTicks
  /\ \A c \in CallIds : calls[c].pc # "batch"
  /\ \E t \in {now + 1} \cup {x \in ExpiryInstants : x > now}
               \cup {x + 1 : x \in {y \in ExpiryInstants : y >= now}} :
       now' = t
  /\ ticks' = ticks + 1
  /\ last' = NoOp
  /\ UNCHANGED <<impl, im_playlists, im_searchCache, ps_playlists,
                 ps_searchResults, nextGen, stores>>
  /\ UNCHANGED flowVars

(***************************************************************************)
(* The operations of the store, called directly (SpecStore).               *)
(***************************************************************************)
StorePlaylistIM ==
  /\ impl = "InMemoryStore"
  /\ stores < MaxStores
  /\ stores' = stores + 1
  /\ \E id \in Uuids :
       /\ im_playlists' = IM_storePlaylist(im_playlists, id, PlaylistData(id.n), now)
       /\ last' = NoOp
  /\ UNCHANGED <<impl, now, ticks, im_searchCache, ps_playlists,
                 ps_searchResults, nextGen>>
  /\ UNCHANGED flowVars

GetPlaylistIM ==
  /\ impl = "InMemoryStore"
  /\ \E id \in Uuids :
       /\ im_playlists' = IM_getPlaylist(im_playlists, id, now).map
       /\ last' = [op |-> "getPlaylist", arg |-> id,
                   ret |-> IM_getPlaylist(im_playlists, id, now).ret,
                   path |-> IM_getPlaylist(im_playlists, id, now).path]
  /\ UNCHANGED <<stores, impl, now, ticks, im_searchCache, ps_playlists,
                 ps_searchResults, nextGen>>
  /\ UNCHANGED flowVars

StoreSearchResultIM ==
  /\ impl = "InMemoryStore"
  /\ stores < MaxStores
  /\ stores' = stores + 1
  /\ \E q \in Queries : \E r \in {SearchHit(q)} :
       /\ im_searchCache' = IM_storeSearchResult(im_searchCache, q, r, now)
       /\ last' = NoOp
  /\ UNCHANGED <<impl, now, ticks, im_playlists, ps_playlists,
                 ps_searchResults, nextGen>>
  /\ UNCHANGED flowVars

GetSearchResultIM ==
  /\ impl = "InMemoryStore"
  /\ \E q \in Queries :
       /\ im_searchCache' = IM_getSearchResult(im_searchCache, q, now).map
       /\ last' = [op |-> "getSearchResult", arg |-> q,
                   ret |-> IM_getSearchResult(im_searchCache, q, now).ret,
                   path |-> IM_getSearchResult(im_searchCache, q, now).path]
  /\ UNCHANGED <<stores, impl, now, ticks, im_playlists, ps_playlists,
                 ps_searchResults, nextGen>>
  /\ UNCHANGED flowVars

(* cleanup(), run by setInterval every five minutes *)
CleanupIM ==
  /\ impl = "InMemoryStore"
  /\ im_playlists' = IM_cleanupPlaylists(im_playlists, now)
  /\ im_searchCache' = IM_cleanupSearches(im_searchCache, now)
  /\ last' = NoOp
  /\ UNCHANGED <<stores, impl, now, ticks, ps_playlists, ps_searchResults, nextGen>>
  /\ UNCHANGED flowVars

StorePlaylistPS ==
  /\ impl = "PlaylistStore"
  /\ stores < MaxStores
  /\ stores' = stores + 1
  /\ ps_playlists' =
       PS_storePlaylist(ps_playlists, PlaylistData(nextGen + 1), nextGen + 1, now)
  /\ nextGen' = nextGen + 1
  /\ last' = NoOp
  /\ UNCHANGED <<impl, now, ticks, im_playlists, im_searchCache, ps_searchResults>>
  /\ UNCHANGED flowVars

GetPlaylistPS ==
  /\ impl = "PlaylistStore"
  /\ \E id \in Uuids \cup {generateId(n) : n \in 1..nextGen} :
       /\ ps_playlists' = PS_getPlaylist(ps_playlists, id, now).map
       /\ last' = [op |-> "getPlaylist", arg |-> id,
                   ret |-> PS_getPlaylist(ps_playlists, id, now).ret,
                   path |-> PS_getPlaylist(ps_playlists, id, now).path]
  /\ UNCHANGED <<stores, impl, now, ticks, im_playlists, im_searchCache,
                 ps_searchResults, nextGen>>
  /\ UNCHANGED flowVars

StoreSearchResultPS ==
  /\ impl = "PlaylistStore"
  /\ stores < MaxStores
  /\ stores' = stores + 1
  /\ \E q \in Queries : \E r \in {SearchHit(q)} :
       /\ ps_searchResults' = PS_storeSearchResult(ps_searchResults, q, r, now)
       /\ last' = NoOp
  /\ UNCHANGED <<impl, now, ticks, im_playlists, im_searchCache,
                 ps_playlists, nextGen>>
  /\ UNCHANGED flowVars

GetSearchResultPS ==
  /\ impl = "PlaylistStore"
  /\ \E q \in Queries :
       /\ ps_searchResults' = PS_getSearchResult(ps_searchResults, q, now).map
       /\ last' = [op |-> "getSearchResult", arg |-> q,
                   ret |-> PS_getSearchResult(ps_searchResults, q, now).ret,
                   path |-> PS_getSearchResult(ps_searchResults, q, now).path]
  /\ UNCHANGED <<stores, impl, now, ticks, im_playlists, im_searchCache,
                 ps_playlists, nextGen>>
  /\ UNCHANGED flowVars

(* getStats(): sweeps both maps before counting them *)
GetStatsPS ==
  /\ impl = "PlaylistStore"
  /\ ps_playlists' = cleanExpiredPlaylists(ps_playlists, now)
  /\ ps_searchResults' = cleanExpiredSearchResults(ps_searchResults, now)
  /\ last' = NoOp
  /\ UNCHANGED <<stores, impl, now, ticks, im_playlists, im_searchCache, nextGen>>
  /\ UNCHANGED flowVars

(***************************************************************************)
(* resolveMany called directly (SpecResolve): the calls are numbered in    *)
(* the order in which they start.                                          *)
(***************************************************************************)

(* the candidate lists resolveMany is called with *)
ListsOf(provider) ==
  IF provider = "yt"
  THEN { <<S1, S5, S3, S4>>, <<S1, S2, S7, S4>> }
  ELSE { <<S1, S2, S3, S4, S7, S2>>, <<S5, S1, S6>> }

StartResolve ==
  /\ \E c \in CallIds :
       /\ calls[c].pc = "idle"
       /\ \A d \in CallIds : d < c => calls[d].pc # "idle"
       /\ \E provider \in {"yt", "sp"} :
            \E songs \in ListsOf(provider) :
              LET b == BeginCall(provider, IF provider = "sp" THEN "valid" ELSE "none",
                                 songs, ps_searchResults, now)
              IN /\ calls' = [calls EXCEPT ![c] = b.call]
                 /\ ps_searchResults' = b.cache
  /\ UNCHANGED <<impl, now, ticks, im_playlists, im_searchCache, ps_playlists,
                 nextGen, stores, last, req>>

(* a provider request of a call completes: the continuation of searchTrack *)
(* or searchSpotifyTrack, and of the loop when it was the last of a batch  *)
Complete ==
  /\ \E c \in CallIds :
       /\ calls[c].pc = "batch"
       /\ \E k \in calls[c].pending :
            \E answer \in Answers(calls[c], calls[c].songs[calls[c].i + k]) :
              LET b == CompleteTask(calls[c], k, answer, ps_searchResults, now)
              IN /\ calls' = [calls EXCEPT ![c] = b.call]
                 /\ ps_searchResults' = b.cache
  /\ UNCHANGED <<impl, now, ticks, im_playlists, im_searchCache, ps_playlists,
                 nextGen, stores, last, req>>

(* the setTimeout between two batches fires: i += batchSize, next batch *)
PauseElapsed ==
  /\ \E c \in CallIds :
       /\ calls[c].pc = "pause"
       /\ LET b == BeginBatch([calls[c] EXCEPT
                                 !.i = @ + batchSize(calls[c].provider)],
                              ps_searchResults, now)
          IN /\ calls' = [calls EXCEPT ![c] = b.call]
             /\ ps_searchResults' = b.cache
  /\ UNCHANGED <<impl, now, ticks, im_playlists, im_searchCache, ps_playlists,
                 nextGen, stores, last, req>>

IdleReq ==
  [pc |-> "idle", id |-> Null, token |-> "none", playlistData |-> Null,
   final |-> Null, response |-> Null, primaryCalls |-> 0, fallbackCalls |-> 0,
   primaryThrew |-> FALSE, fallbackThrew |-> FALSE, spotifyFailed |-> FALSE,
   spotifyCreated |-> FALSE, storedAt |-> 0, resolveCalls |-> 0,
   songsWithVideoIds |-> <<>>, spotifyResults |-> <<>>]

FlowInit ==
  /\ calls = [c \in CallIds |-> IdleCall]
  /\ req = IdleReq

StoreInit ==
  /\ now = 0
  /\ ticks = 0
  /\ im_playlists = <<>>
  /\ im_searchCache = <<>>
  /\ ps_playlists = <<>>
  /\ ps_searchResults = <<>>
  /\ nextGen = 0
  /\ stores = 0
  /\ last = NoOp

StoreNext ==
  \/ Tick
  \/ StorePlaylistIM
  \/ GetPlaylistIM
  \/ StoreSearchResultIM
  \/ GetSearchResultIM
  \/ CleanupIM
  \/ StorePlaylistPS
  \/ GetPlaylistPS
  \/ StoreSearchResultPS
  \/ GetSearchResultPS
  \/ GetStatsPS

InitStore ==
  impl \in {"InMemoryStore", "PlaylistStore"} /\ StoreInit /\ FlowInit

SpecStore == InitStore /\ [][StoreNext]_vars

(***************************************************************************)
(* InMemoryStore under inserts only (SpecEvict): `last` keeps the insert   *)
(* made last and the map it was made into.                                 *)
(***************************************************************************)
MaxInserts == 4

(* storePlaylist(id, playlistData) *)
InsertPlaylist ==
  /\ stores < MaxInserts
  /\ stores' = stores + 1
  /\ \E id \in Uuids :
       /\ im_playlists' = IM_storePlaylist(im_playlists, id, PlaylistData(id.n), now)
       /\ last' = [op |-> "storePlaylist", arg |-> id, before |-> im_playlists,
                   ret |-> Null, path |-> "none"]
  /\ UNCHANGED <<impl, now, ticks, im_searchCache, ps_playlists,
                 ps_searchResults, nextGen>>
  /\ UNCHANGED flowVars

(* storeSearchResult(query, result) *)
InsertSearchResult ==
  /\ stores < MaxInserts
  /\ stores' = stores + 1
  /\ \E q \in Queries :
       /\ im_searchCache' = IM_storeSearchResult(im_searchCache, q, SearchHit(q), now)
       /\ last' = [op |-> "storeSearchResult", arg |-> normalizeQuery(q),
                   before |-> im_searchCache, ret |-> Null, path |-> "none"]
  /\ UNCHANGED <<impl, now, ticks, im_playlists, ps_playlists,
                 ps_searchResults, nextGen>>
  /\ UNCHANGED flowVars

InitEvict == impl = "InMemoryStore" /\ StoreInit /\ FlowInit

EvictNext ==
  \/ InsertPlaylist
  \/ InsertSearchResult
  \/ Tick

SpecEvict == InitEvict /\ [][EvictNext]_vars

(* every service imports `store` from config/database.js: PlaylistStore *)
InitResolve == impl = "PlaylistStore" /\ StoreInit /\ FlowInit

ResolveNext ==
  \/ StartResolve
  \/ Complete
  \/ PauseElapsed

SpecResolve == InitResolve /\ [][ResolveNext]_vars

(***************************************************************************)
(* Resolutions on YouTube Music racing on the search cache (SpecRace):     *)
(* two calls of searchMultipleTracks on a list whose first and last        *)
(* candidate have the same query, while time passes between a request and  *)
(* its answer.                                                             *)
(***************************************************************************)
RaceList == <<S1, S3, S4>>

StartRace ==
  /\ \E c \in CallIds :
       /\ calls[c].pc = "idle"
       /\ \A d \in CallIds : d < c => calls[d].pc # "idle"
       /\ LET b == BeginCall("yt", "none", RaceList, ps_searchResults, now)
          IN /\ calls' = [calls EXCEPT ![c] = b.call]
             /\ ps_searchResults' = b.cache
  /\ UNCHANGED <<impl, now, ticks, im_playlists, im_searchCache, ps_playlists,
                 nextGen, stores, last, req>>

(* Date.now() moves on, by a millisecond or past the expiry of a search *)
Elapse ==
  /\ ticks < MaxTicks
  /\ \E d \in {1, SEARCH_EXPIRATION_TIME + 1} : now' = now + d
  /\ ticks' = ticks + 1
  /\ UNCHANGED <<impl, im_playlists, im_searchCache, ps_playlists,
                 ps_searchResults, nextGen, stores, last, calls, req>>

RaceNext ==
  \/ StartRace
  \/ Complete
  \/ Elapse

SpecRace == InitResolve /\ [][RaceNext]_vars

(***************************************************************************)
(* The steps of a generate request (SpecGen).  Resolution on YouTube Music *)
(* runs as call 1 and the Spotify search as call 2; their requests         *)
(* complete through Complete and PauseElapsed.                             *)
(***************************************************************************)
(* getPlaylist up to `await generateClassicalPlaylist(...)` *)
GenRequest ==
  /\ req.pc = "idle"
  /\ \E described \in BOOLEAN : \E token \in Tokens :
       req' = IF ~described
              THEN Respond(req, 400, "error", Null)
              ELSE [req EXCEPT !.pc = "primary", !.id = Uuid(1),
                               !.token = token, !.primaryCalls = @ + 1]
  /\ UNCHANGED <<storeVars, calls>>

(* the primary generation returns or throws *)
PrimaryReturns ==
  /\ req.pc = "primary"
  /\ \E raw \in RawOutputs :
       LET out == generateClassicalPlaylist(raw)
           next == AfterGeneration(req, out, ps_searchResults, now)
       IN IF Escalates(out)
          THEN /\ req' = [req EXCEPT !.pc = "fallback",
                                     !.primaryThrew = (out = Thrown),
                                     !.fallbackCalls = @ + 1]
               /\ UNCHANGED <<calls, ps_searchResults>>
          ELSE /\ req' = next.req
               /\ calls' = [calls EXCEPT ![1] = next.call]
               /\ ps_searchResults' = next.cache
  /\ UNCHANGED <<impl, now, ticks, im_playlists, im_searchCache, ps_playlists,
                 nextGen, stores, last>>

(* the fallback generation returns or throws; a throw reaches the outer    *)
(* catch of getPlaylist                                                    *)
FallbackReturns ==
  /\ req.pc = "fallback"
  /\ \E raw \in RawOutputs :
       LET out == generateFallbackClassicalPlaylist(raw)
           r == [req EXCEPT !.fallbackThrew = (raw = Thrown)]
           next == AfterGeneration(r, out, ps_searchResults, now)
       IN IF out = Thrown
          THEN /\ req' = Respond(r, 500, "error", Null)
               /\ UNCHANGED <<calls, ps_searchResults>>
          ELSE /\ req' = next.req
               /\ calls' = [calls EXCEPT ![1] = next.call]
               /\ ps_searchResults' = next.cache
  /\ UNCHANGED <<impl, now, ticks, im_playlists, im_searchCache, ps_playlists,
                 nextGen, stores, last>>

(* searchMultipleTracks has returned: none found is the 404; with a token  *)
(* the Spotify search starts; without one the playlist is finalized        *)
YoutubeReturns ==
  /\ req.pc = "youtube"
  /\ calls[1].pc \in {"done", "thrown"}
  /\ LET r == [req EXCEPT !.songsWithVideoIds = calls[1].results]
         found == foundYTSongs(calls[1].results)
         sp == BeginCall("sp", req.token, req.playlistData.songs.items,
                         ps_searchResults, now)
         fin == Finalize(r, Null, found, ps_playlists, nextGen + 1, now)
     IN IF calls[1].pc = "thrown"
        THEN /\ req' = Respond(req, 500, "error", Null)
             /\ calls' = [calls EXCEPT ![1] = IdleCall]
             /\ UNCHANGED <<ps_playlists, nextGen, last>>
        ELSE IF NoneFound(found)
        THEN /\ req' = Respond(r, 404, "error", Null)
             /\ calls' = [calls EXCEPT ![1] = IdleCall]
             /\ UNCHANGED <<ps_playlists, nextGen, last>>
        ELSE IF req.token # "none"
        THEN /\ req' = [r EXCEPT !.pc = "spotifySearch"]
             /\ calls' = [calls EXCEPT ![1] = IdleCall, ![2] = sp.call]
             /\ UNCHANGED <<ps_playlists, nextGen, last>>
        ELSE /\ req' = fin.req
             /\ calls' = [calls EXCEPT ![1] = IdleCall]
             /\ ps_playlists' = fin.playlists
             /\ nextGen' = nextGen + 1
             /\ last' = NoOp
  /\ UNCHANGED <<impl, now, ticks, im_playlists, im_searchCache,
                 ps_searchResults, stores>>

(* the request leaves the Spotify branch: by its end, by its else, or by   *)
(* its catch                                                               *)
LeaveSpotify(r, spotify, failed) ==
  LET fin == Finalize([r EXCEPT !.spotifyFailed = failed], spotify,
                      foundYTSongs(r.songsWithVideoIds), ps_playlists,
                      nextGen + 1, now)
  IN /\ req' = fin.req
     /\ ps_playlists' = fin.playlists
     /\ nextGen' = nextGen + 1
     /\ last' = NoOp

(* searchMultipleSpotifyTracks has returned *)
SpotifySearchReturns ==
  /\ req.pc = "spotifySearch"
  /\ calls[2].pc \in {"done", "thrown"}
  /\ LET r == [req EXCEPT !.spotifyResults = calls[2].results]
     IN IF calls[2].pc = "thrown"
        THEN LeaveSpotify(req, Null, TRUE)
        ELSE IF Len(foundSpotifyTracks(calls[2].results)) > 0
        THEN /\ req' = [r EXCEPT !.pc = "spotifyProfile"]
             /\ UNCHANGED <<ps_playlists, nextGen, last>>
        ELSE LeaveSpotify(r, Null, \E j \in 1..Len(calls[2].paths) :
                                     calls[2].paths[j] = "error")
  /\ calls' = [calls EXCEPT ![2] = IdleCall]
  /\ UNCHANGED <<impl, now, ticks, im_playlists, im_searchCache,
                 ps_searchResults, stores>>

(* getSpotifyUserProfile returns or throws (always, on an expired token) *)
SpotifyProfileReturns ==
  /\ req.pc = "spotifyProfile"
  /\ \E ok \in (IF req.token = "expired" THEN {FALSE} ELSE BOOLEAN) :
       IF ok
       THEN /\ req' = [req EXCEPT !.pc = "spotifyCreate"]
            /\ UNCHANGED <<ps_playlists, nextGen, last>>
       ELSE LeaveSpotify(req, Null, TRUE)
  /\ UNCHANGED <<impl, now, ticks, im_playlists, im_searchCache,
                 ps_searchResults, stores, calls>>

(* createSpotifyPlaylist returns or throws *)
SpotifyCreateReturns ==
  /\ req.pc = "spotifyCreate"
  /\ \E ok \in BOOLEAN :
       IF ok
       THEN /\ req' = [req EXCEPT !.pc = "spotifyAdd", !.spotifyCreated = TRUE]
            /\ UNCHANGED <<ps_playlists, nextGen, last>>
       ELSE LeaveSpotify(req, Null, TRUE)
  /\ UNCHANGED <<impl, now, ticks, im_playlists, im_searchCache,
                 ps_searchResults, stores, calls>>

(* addTracksToSpotifyPlaylist returns or throws *)
SpotifyAddReturns ==
  /\ req.pc = "spotifyAdd"
  /\ \E ok \in BOOLEAN :
       IF ok
       THEN LeaveSpotify(req, spotifyPlaylistData(
                                req, foundSpotifyTracks(req.spotifyResults)),
                         FALSE)
       ELSE LeaveSpotify(req, Null, TRUE)
  /\ UNCHANGED <<impl, now, ticks, im_playlists, im_searchCache,
                 ps_searchResults, stores, calls>>

(* steps 6.5 and 7: the optional save to MongoDB, whose failure is caught, *)
(* then the response                                                       *)
SendResponse ==
  /\ req.pc = "stored"
  /\ \E saved \in BOOLEAN :
       req' = Respond(req, 200,
                      responseStatus(req.final.totalSongs,
                                     req.final.originalSongsCount),
                      [field \in DOMAIN req.final \cup {"mongoId"} |->
                         IF field = "mongoId" THEN saved ELSE req.final[field]])
  /\ UNCHANGED <<storeVars, calls>>

(* getPlaylistById, asked by a client that waits for the answer to its     *)
(* generate request before it looks a playlist up                          *)
GetPlaylistById ==
  /\ req.pc \in {"idle", "responded"}
  /\ \E id \in {Uuid(1), Uuid(2)} \cup {generateId(n) : n \in 1..nextGen} :
       LET got == PS_getPlaylist(ps_playlists, id, now)
       IN /\ ps_playlists' = got.map
          /\ last' = [op |-> "getPlaylistById", arg |-> id, ret |-> got.ret,
                      path |-> got.path,
                      http |-> IF got.ret = Null THEN 404 ELSE 200]
  /\ UNCHANGED <<stores, impl, now, ticks, im_playlists, im_searchCache,
                 ps_searchResults, nextGen>>
  /\ UNCHANGED flowVars

InitGen == impl = "PlaylistStore" /\ StoreInit /\ FlowInit

GenNext ==
  \/ GenRequest
  \/ PrimaryReturns
  \/ FallbackReturns
  \/ Complete
  \/ PauseElapsed
  \/ YoutubeReturns
  \/ SpotifySearchReturns
  \/ SpotifyProfileReturns
  \/ SpotifyCreateReturns
  \/ SpotifyAddReturns
  \/ SendResponse
  \/ GetPlaylistById
  \/ Tick

SpecGen == InitGen /\ [][GenNext]_vars

(***************************************************************************)
(* The functions of the services applied on their own (SpecPure): the      *)
(* input is drawn at the start, and `last` holds the function applied      *)
(* last, its argument and what it returned.                                *)
(***************************************************************************)
AiModules == {"aiService.js", "part_007"}

(***************************************************************************)
(* The global error handler.  A message is the sequence of its words, and  *)
(* includes() looks for a run of words in it; an error without a message   *)
(* has message Null.                                                       *)
(***************************************************************************)
includes(message, words) ==
  /\ message # Null
  /\ \E i \in 1..Len(message.chars) :
       /\ i + Len(words) - 1 <= Len(message.chars)
       /\ SubSeq(message.chars, i, i + Len(words) - 1) = words

(* the error getSpotifyUserProfile throws on HTTP 401, and its other error *)
SpotifyTokenError ==
  Str(<<"Spotify", "token", "is", "invalid", "or", "expired.",
        "Please", "log", "in", "again.">>)

SpotifyProfileError ==
  Str(<<"Failed", "to", "fetch", "Spotify", "user", "profile.">>)

ErrorMessages ==
  {SpotifyTokenError, SpotifyProfileError, Null,
   Str(<<"invalid", "token">>),
   Str(<<"Error", "searching", "YouTube", "Music">>),
   Str(<<"Gemini", "rejected", "an", "invalid", "token">>),
   Str(<<"connect", "ECONNREFUSED">>)}

(* err.response is Null or the response's status; status 0 stands for a    *)
(* response without one                                                    *)
ErrorInputs ==
  {[type |-> "err", errType |-> t, isAxiosError |-> ax, response |-> rs,
    request |-> rq, message |-> msg] :
     t \in {Null, Str(<<"entity.parse.failed">>), Str(<<"entity.too.large">>)},
     ax \in BOOLEAN, rs \in {Null, Num(0), Num(401), Num(404)},
     rq \in BOOLEAN, msg \in ErrorMessages}

Answer(status, message) == [status |-> status, message |-> message]

errorHandler(err) ==
  IF err.errType = Str(<<"entity.parse.failed">>)
    THEN Answer(400, "JSON invalido en el cuerpo de la peticion")
  ELSE IF err.errType = Str(<<"entity.too.large">>)
    THEN Answer(413, "El cuerpo de la peticion es demasiado grande")
  ELSE IF err.isAxiosError /\ err.response # Null
    THEN Answer(IF err.response.n # 0 THEN err.response.n ELSE 500,
                "Error en servicio externo")
  ELSE IF err.isAxiosError /\ err.request
    THEN Answer(503, "Servicio externo no disponible")
  ELSE IF includes(err.message, <<"YouTube", "Music">>)
    THEN Answer(503, "Error en el servicio de YouTube Music")
  ELSE IF includes(err.message, <<"Spotify">>)
    THEN Answer(503, "Error en el servicio de Spotify")
  ELSE IF includes(err.message, <<"AI">>) \/ includes(err.message, <<"Gemini">>)
    THEN Answer(503, "Error en el servicio de IA")
  ELSE IF includes(err.message, <<"invalid">>) /\ includes(err.message, <<"token">>)
    THEN Answer(401, "Token de acceso invalido o expirado")
  ELSE Answer(500, "Error interno del servidor")

Applied(op, module, arg, ret) ==
  [op |-> op, module |-> module, arg |-> arg, ret |-> ret]

PureInputs ==
  Texts \cup RefineInputs \cup MatchInputs \cup SearchInputs \cup AddInputs
    \cup ErrorInputs

InitPure ==
  /\ impl = "PlaylistStore"
  /\ now = 0
  /\ ticks = 0
  /\ im_playlists = <<>>
  /\ im_searchCache = <<>>
  /\ ps_playlists = <<>>
  /\ ps_searchResults = <<>>
  /\ nextGen = 0
  /\ stores = 0
  /\ FlowInit
  /\ last \in {Applied("input", "none", x, Null) : x \in PureInputs}

PureFrame ==
  UNCHANGED <<impl, now, ticks, im_playlists, im_searchCache, ps_playlists,
              ps_searchResults, nextGen, stores, calls, req>>

(* parseJsonFromGeminiResponse(response.text()) *)
ParseText ==
  /\ last.op = "input"
  /\ last.arg.type = "text"
  /\ \E module \in AiModules :
       last' = Applied("parseJsonFromGeminiResponse", module, last.arg,
                       IF module = "aiService.js"
                       THEN parseJsonFromGeminiResponse(last.arg)
                       ELSE P7_parseJsonFromGeminiResponse(last.arg))
  /\ PureFrame

(* generateClassicalPlaylist from the parsed answer on *)
GeneratePrimary ==
  /\ last.op = "parseJsonFromGeminiResponse"
  /\ last' = Applied("generateClassicalPlaylist", last.module, last.ret,
                     generateClassicalPlaylist(last.ret))
  /\ PureFrame

(* generateFallbackClassicalPlaylist from the parsed answer on *)
GenerateFallback ==
  /\ last.op = "parseJsonFromGeminiResponse"
  /\ last' = Applied("generateFallbackClassicalPlaylist", last.module, last.ret,
                     IF last.module = "aiService.js"
                     THEN generateFallbackClassicalPlaylist(last.ret)
                     ELSE P7_generateFallbackClassicalPlaylist(last.ret))
  /\ PureFrame

(* refinePlaylistWithAudioFeatures, given what the model answered *)
Refine ==
  /\ last.op = "input"
  /\ last.arg.type = "refine"
  /\ last' = Applied("refinePlaylistWithAudioFeatures", "aiService.js", last.arg,
                     refinePlaylistWithAudioFeatures(last.arg.songs,
                                                     last.arg.answer))
  /\ PureFrame

(* findBestMatch / findBestSpotifyMatch *)
Match ==
  /\ last.op = "input"
  /\ last.arg.type = "match"
  /\ last' = Applied("findBestMatch", last.arg.provider, last.arg,
                     findBestMatch(last.arg.provider, last.arg.results,
                                   last.arg.title, last.arg.artist))
  /\ PureFrame

(* searchSpotifyTrack inside the callback of searchMultipleSpotifyTracks:  *)
(* what the caller gets for each answer the provider may give              *)
SearchSpotify ==
  /\ last.op = "input"
  /\ last.arg.type = "search"
  /\ last' = Applied("searchSpotifyTrack", "spotifyService.js", last.arg,
                     [a \in SearchAnswers |->
                        SP_batchTask(last.arg.song,
                                     SP_searchTrackEnd(last.arg.song, a))])
  /\ PureFrame

(* addTracksToSpotifyPlaylist builds its request *)
AddTracks ==
  /\ last.op = "input"
  /\ last.arg.type = "add"
  /\ last' = Applied("addTracksToSpotifyPlaylist", "spotifyService.js", last.arg,
                     addTracksRequest(last.arg.trackUris))
  /\ PureFrame

(* an error reaches the global handler *)
HandleError ==
  /\ last.op = "input"
  /\ last.arg.type = "err"
  /\ last' = Applied("errorHandler", "errorHandler.js", last.arg,
                     errorHandler(last.arg))
  /\ PureFrame

PureNext ==
  \/ HandleError
  \/ AddTracks
  \/ ParseText
  \/ GeneratePrimary
  \/ GenerateFallback
  \/ Refine
  \/ Match
  \/ SearchSpotify

SpecPure == InitPure /\ [][PureNext]_vars

(***************************************************************************)
(* createSpotifyPlaylistDirect (SpecDirect).  The Spotify search runs as   *)
(* call 2.  An error carries where it was thrown and whether its message   *)
(* contains "invalid" or "expired", which is all the catch looks at.       *)
(***************************************************************************)
Error(from, marked) == [type |-> "error", from |-> from, marked |-> marked]

(* what a Spotify Web API call may end in *)
SpotifyOutcomes == {"ok", "unauthorized", "failed"}

(* uri.match(/spotify:track:([^:]+)/)[1] *)
extractIdFromUri(uri) == IF uri = Null THEN Null ELSE Str(uri.of)

(* foundSongs.map((song, index) => ({...song, id: trackIds[index], ...})),  *)
(* every found song having a track uri                                     *)
songsWithFeatures(foundSongs) ==
  [k \in 1..Len(foundSongs) |->
     [title |-> foundSongs[k].title, artist |-> foundSongs[k].artist,
      uri |-> foundSongs[k].uri, found |-> foundSongs[k].found,
      id |-> extractIdFromUri(foundSongs[k].uri)]]

(* foundSongs.map(song => ({title, artist, uri})) of the response *)
responseTracks(songs) ==
  [k \in 1..Len(songs) |-> Refined(songs[k].title, songs[k].artist, songs[k].uri)]

(* mutant of afterRefinement: the failure of the refinement is not caught *)
afterRefinementRethrows(foundSongs, refined) ==
  IF refined = Thrown
  THEN [tracks |-> foundSongs, error |-> Error("refinement", FALSE)]
  ELSE [tracks |-> refined.items, error |-> Null]

(* try { foundSongs = await refine(...) } catch { warn }: the list the     *)
(* playlist is made of, and the error that leaves the try, if any          *)
afterRefinement(foundSongs, refined) ==
  IF refined = Thrown
  THEN [tracks |-> foundSongs, error |-> Null]
  ELSE [tracks |-> refined.items, error |-> Null]

(* the generated playlists the flow is exercised with *)
DirectOutputs ==
  RawOutputs
  \cup {Obj(Str(<<"t">>), Str(<<"d">>), Arr(<<S1, S2, S7, S8, S9, S3>>))}

Reverse(seq) == [k \in 1..Len(seq) |-> seq[Len(seq) + 1 - k]]

(* what the model may answer to the refinement of `songs`: a failure, the  *)
(* songs reversed, one only, one with a uri from elsewhere, one without    *)
(* its title                                                               *)
DirectRefineAnswers(songs) ==
  { Thrown,
    Arr(Reverse(responseTracks(songs))),
    Arr(<<responseTracks(songs)[1]>>),
    Arr(Append(responseTracks(songs),
               Refined(S3.title, S3.artist, SpotifyUri(buildQuery(S3))))),
    Arr([responseTracks(songs) EXCEPT ![1].title = Str(<<>>)]) }

IdleDirect ==
  [pc |-> "idle", token |-> "none", useAudioFeatures |-> FALSE,
   playlistData |-> Null, foundSongs |-> <<>>, tracks |-> <<>>,
   refinement |-> "none", answer |-> Null, spotifyRejected |-> FALSE,
   generationFailed |-> FALSE, error |-> Null, response |-> Null]

(* the catch of the controller: the message decides between 401 and 500 *)
Catch(r, error) ==
  [r EXCEPT !.pc = "responded", !.error = error,
            !.spotifyRejected = @ \/ error.from = "spotify401",
            !.response = [http |-> IF error.marked THEN 401 ELSE 500,
                          status |-> "error", data |-> Null]]

(* the error a Spotify call throws: the 401 text names the token invalid   *)
(* or expired; the text of createSpotifyPlaylist embeds the cause's        *)
SpotifyError(outcome, marked) ==
  IF outcome = "unauthorized" THEN Error("spotify401", TRUE)
  ELSE Error("spotify", marked)

(* the checks of the body, up to `await getSpotifyUserProfile(...)` *)
DirectRequest ==
  /\ req.pc = "idle"
  /\ \E token \in {"none", "valid"} : \E described, useAudioFeatures \in BOOLEAN :
       req' = IF token = "none" \/ ~described
              THEN [req EXCEPT !.pc = "responded", !.token = token,
                               !.response = [http |-> 400, status |-> "error",
                                             data |-> Null]]
              ELSE [req EXCEPT !.pc = "profile", !.token = token,
                               !.useAudioFeatures = useAudioFeatures]
  /\ UNCHANGED <<storeVars, calls>>

(* getSpotifyUserProfile returns or throws *)
DirectProfileReturns ==
  /\ req.pc = "profile"
  /\ \E outcome \in SpotifyOutcomes :
       req' = IF outcome = "ok" THEN [req EXCEPT !.pc = "primary"]
              ELSE Catch(req, SpotifyError(outcome, FALSE))
  /\ UNCHANGED <<storeVars, calls>>

(* the playlist is there: searchMultipleSpotifyTracks starts, unless       *)
(* reading playlistData.songs.length is a TypeError                        *)
DirectAfterGeneration(r, data) ==
  IF data.type # "object" \/ ~IsArray(data.songs)
  THEN /\ req' = Catch(r, Error("TypeError", FALSE))
       /\ UNCHANGED calls
  ELSE /\ req' = [r EXCEPT !.pc = "search", !.playlistData = data]
       /\ calls' = [calls EXCEPT ![2] =
                      BeginCall("sp", r.token, data.songs.items,
                                ps_searchResults, now).call]

(* the primary generation returns or throws *)
DirectPrimaryReturns ==
  /\ req.pc = "primary"
  /\ \E raw \in DirectOutputs :
       IF Escalates(generateClassicalPlaylist(raw))
       THEN /\ req' = [req EXCEPT !.pc = "fallback"]
            /\ UNCHANGED calls
       ELSE DirectAfterGeneration(req, generateClassicalPlaylist(raw))
  /\ UNCHANGED storeVars

(* the fallback generation returns or throws; the message of its error     *)
(* ends with the message of what failed inside                             *)
DirectFallbackReturns ==
  /\ req.pc = "fallback"
  /\ \E raw \in DirectOutputs : \E marked \in BOOLEAN :
       IF generateFallbackClassicalPlaylist(raw) = Thrown
       THEN /\ req' = Catch([req EXCEPT !.generationFailed = TRUE],
                            Error("generation", marked))
            /\ UNCHANGED calls
       ELSE DirectAfterGeneration(req, generateFallbackClassicalPlaylist(raw))
  /\ UNCHANGED storeVars

(* searchMultipleSpotifyTracks has returned: fewer than five found is the  *)
(* 404; getTracksAudioFeatures, which catches its own errors, comes before *)
(* the refinement                                                          *)
DirectSearchReturns ==
  /\ req.pc = "search"
  /\ calls[2].pc = "done"
  /\ LET foundSongs == foundSpotifyTracks(calls[2].results)
     IN req' = IF Len(foundSongs) < 5
               THEN [req EXCEPT !.pc = "responded", !.foundSongs = foundSongs,
                                !.response = [http |-> 404, status |-> "error",
                                              data |-> Null]]
               ELSE [req EXCEPT !.pc = IF req.useAudioFeatures THEN "refine"
                                       ELSE "create",
                                !.foundSongs = foundSongs,
                                !.tracks = foundSongs]
  /\ calls' = [calls EXCEPT ![2] = IdleCall]
  /\ UNCHANGED storeVars

(* refinePlaylistWithAudioFeatures returns or throws *)
DirectRefineReturns ==
  /\ req.pc = "refine"
  /\ \E answer \in DirectRefineAnswers(req.foundSongs) :
       LET refined == refinePlaylistWithAudioFeatures(
                        songsWithFeatures(req.foundSongs), answer)
           after == afterRefinement(req.foundSongs, refined)
           r == [req EXCEPT !.answer = answer,
                            !.refinement = IF refined = Thrown THEN "abandoned"
                                           ELSE "accepted",
                            !.tracks = after.tracks]
       IN req' = IF after.error # Null THEN Catch(r, after.error)
                 ELSE [r EXCEPT !.pc = "create"]
  /\ UNCHANGED <<storeVars, calls>>

(* createSpotifyPlaylist returns or throws *)
DirectCreateReturns ==
  /\ req.pc = "create"
  /\ \E outcome \in SpotifyOutcomes : \E marked \in BOOLEAN :
       req' = IF outcome = "ok" THEN [req EXCEPT !.pc = "add"]
              ELSE Catch(req, SpotifyError(outcome, marked))
  /\ UNCHANGED <<storeVars, calls>>

(* addTracksToSpotifyPlaylist returns or throws (it is not called for an   *)
(* empty list), then the response                                          *)
DirectAddReturns ==
  /\ req.pc = "add"
  /\ \E outcome \in (IF req.tracks = <<>> THEN {"ok"} ELSE SpotifyOutcomes) :
       req' = IF outcome = "ok"
              THEN [req EXCEPT !.pc = "responded",
                               !.response =
                                 [http |-> 200, status |-> "success",
                                  data |-> [totalTracks |-> Len(req.tracks),
                                            audioFeaturesUsed |-> req.useAudioFeatures,
                                            tracks |-> responseTracks(req.tracks)]]]
              ELSE Catch(req, SpotifyError(outcome, FALSE))
  /\ UNCHANGED <<storeVars, calls>>

InitDirect ==
  /\ impl = "PlaylistStore"
  /\ StoreInit
  /\ calls = [c \in CallIds |-> IdleCall]
  /\ req = IdleDirect

DirectNext ==
  \/ DirectRequest
  \/ DirectProfileReturns
  \/ DirectPrimaryReturns
  \/ DirectFallbackReturns
  \/ Complete
  \/ PauseElapsed
  \/ DirectSearchReturns
  \/ DirectRefineReturns
  \/ DirectCreateReturns
  \/ DirectAddReturns

SpecDirect == InitDirect /\ [][DirectNext]_vars

(***************************************************************************)
(* The OAuth endpoints of spotifyController.js (SpecAuth).  `req` holds    *)
(* the module's map tempCodeVerifiers and the number of states handed out; *)
(* `last` holds the last request and what was done for it.                 *)
(***************************************************************************)
MaxAuthStates == 3

MaxAuthTicks == 2

TEN_MINUTES == 10 * 60 * 1000

(* randomBytes(32).toString('hex'): a fresh value at each call *)
AuthState(n) == [type |-> "state", n |-> n]

IdleAuth == [pc |-> "auth", tempCodeVerifiers |-> <<>>, issued |-> 0]

(* for (const [key, value] of tempCodeVerifiers.entries())                 *)
(*   if (value.timestamp < tenMinutesAgo) tempCodeVerifiers.delete(key)    *)
sweepCodeVerifiers(m, t) ==
  SelectEntries(m, {m[i].key : i \in {j \in 1..Len(m) :
                                        ~(m[j].timestamp < t - TEN_MINUTES)}})

AuthFrame ==
  UNCHANGED <<impl, im_playlists, im_searchCache, ps_playlists,
              ps_searchResults, nextGen, stores, calls>>

(* POST auth/init *)
InitSpotifyAuth ==
  /\ req.issued < MaxAuthStates
  /\ \E redirectUri, built \in BOOLEAN :
       IF ~redirectUri
       THEN /\ req' = req
            /\ last' = [op |-> "initSpotifyAuth", http |-> 400, state |-> Null]
       ELSE IF ~built
       THEN /\ req' = [req EXCEPT !.issued = @ + 1]
            /\ last' = [op |-> "initSpotifyAuth", http |-> 500, state |-> Null]
       ELSE /\ req' = [req EXCEPT
                         !.issued = @ + 1,
                         !.tempCodeVerifiers =
                           sweepCodeVerifiers(
                             MapSet(@, AuthState(req.issued + 1),
                                    [key |-> AuthState(req.issued + 1),
                                     codeVerifier |-> req.issued + 1,
                                     timestamp |-> now]),
                             now)]
            /\ last' = [op |-> "initSpotifyAuth", http |-> 200,
                        state |-> AuthState(req.issued + 1)]
  /\ UNCHANGED <<now, ticks>>
  /\ AuthFrame

(* POST auth/callback: the lookup of the verifier, its removal, and the    *)
(* exchange of the code, which succeeds (200) or throws (401 when the      *)
(* message names the code or says invalid, 500 otherwise)                  *)
HandleSpotifyCallback ==
  /\ \E code \in BOOLEAN : \E exchange \in {200, 401, 500} :
       \E state \in {Null} \cup {AuthState(n) : n \in 0..req.issued} :
         IF ~code \/ state = Null
         THEN /\ req' = req
              /\ last' = [op |-> "handleSpotifyCallback", http |-> 400,
                          state |-> state, storedData |-> Null,
                          exchanged |-> FALSE, at |-> now]
         ELSE IF ~MapHas(req.tempCodeVerifiers, state)
         THEN /\ req' = req
              /\ last' = [op |-> "handleSpotifyCallback", http |-> 400,
                          state |-> state, storedData |-> Null,
                          exchanged |-> FALSE, at |-> now]
         ELSE /\ req' = [req EXCEPT !.tempCodeVerifiers = MapDelete(@, state)]
              /\ last' = [op |-> "handleSpotifyCallback",
                          http |-> exchange,
                          state |-> state,
                          storedData |-> MapGet(req.tempCodeVerifiers, state),
                          exchanged |-> TRUE, at |-> now]
  /\ UNCHANGED <<now, ticks>>
  /\ AuthFrame

(* time passes: a millisecond, ten minutes, or a millisecond more *)
AuthTick ==
  /\ ticks < MaxAuthTicks
  /\ \E d \in {1, TEN_MINUTES, TEN_MINUTES + 1} : now' = now + d
  /\ ticks' = ticks + 1
  /\ last' = NoOp
  /\ UNCHANGED req
  /\ AuthFrame

InitAuth ==
  /\ impl = "PlaylistStore"
  /\ StoreInit
  /\ calls = [c \in CallIds |-> IdleCall]
  /\ req = IdleAuth

AuthNext ==
  \/ InitSpotifyAuth
  \/ HandleSpotifyCallback
  \/ AuthTick

SpecAuth == InitAuth /\ [][AuthNext]_vars

(***************************************************************************)
(* The saved playlists of savedPlaylistController.js (SpecSaved).  `req`   *)
(* holds the Playlist collection, the playlists created in the Spotify     *)
(* account and the frames of the createSpotifyFromSaved requests in        *)
(* flight; each await of that handler is a step of its own.                *)
(***************************************************************************)
MaxSavedRequests == 3

SavedFrames == {1, 2}

SavedIds == {"p1", "p2", "p9"}

UserIds == {Null, Str(<<>>), Str(<<"u1">>), Str(<<"u2">>)}

(* a document of the collection: its owner, its Spotify playlist, and      *)
(* whether some song of it has a spotifyUri                                *)
SavedDoc(id, userId, withUri) ==
  [key |-> id, userId |-> userId, spotifyPlaylistId |-> Null,
   withUri |-> withUri]

IdleFrame == [pc |-> "idle", id |-> "p9", savedPlaylist |-> Null,
              newSpotifyPlaylist |-> Null]

IdleSaved ==
  [pc |-> "saved",
   db |-> <<SavedDoc("p1", Str(<<"u1">>), TRUE), SavedDoc("p2", Null, FALSE)>>,
   created |-> <<>>,
   started |-> 0,
   frames |-> [r \in SavedFrames |-> IdleFrame]]

SavedFrame ==
  UNCHANGED <<impl, now, ticks, im_playlists, im_searchCache, ps_playlists,
              ps_searchResults, nextGen, stores, calls>>

(* DELETE /:id with body { userId } *)
deletePlaylist(db, ready, id, userId) ==
  IF ~ready THEN [http |-> 503, db |-> db]
  ELSE IF ~MapHas(db, id) THEN [http |-> 404, db |-> db]
  ELSE IF /\ Truthy(MapGet(db, id).userId)
          /\ Truthy(userId)
          /\ MapGet(db, id).userId # userId
    THEN [http |-> 403, db |-> db]
  ELSE [http |-> 200, db |-> MapDelete(db, id)]

DeletePlaylist ==
  /\ \E ready \in BOOLEAN, id \in SavedIds, userId \in UserIds :
       LET r == deletePlaylist(req.db, ready, id, userId)
       IN /\ req' = [req EXCEPT !.db = r.db]
          /\ last' = [op |-> "deletePlaylist", http |-> r.http, id |-> id,
                      userId |-> userId, ready |-> ready, before |-> req.db]
  /\ SavedFrame

(* the catch: 401 when the message says invalid or expired, 500 otherwise *)
CatchStatus(outcome) == IF outcome = "unauthorized" THEN 401 ELSE 500

SavedAnswer(r, http) ==
  [op |-> "createSpotifyFromSaved", http |-> http, frame |-> r,
   id |-> req.frames[r].id, before |-> req.db, had |-> req.created]

(* the checks before the first Spotify call, findById included *)
CreateBegin(r) ==
  /\ req.frames[r].pc = "idle"
  /\ req.started < MaxSavedRequests
  /\ \E token, ready \in BOOLEAN, id \in SavedIds :
       LET answer(http) == [SavedAnswer(r, http) EXCEPT !.id = id]
           began == [req EXCEPT !.started = @ + 1]
       IN IF ~token THEN /\ req' = began
                         /\ last' = answer(400)
          ELSE IF ~ready THEN /\ req' = began
                              /\ last' = answer(503)
          ELSE IF ~MapHas(req.db, id) THEN /\ req' = began
                                           /\ last' = answer(404)
          ELSE IF Truthy(MapGet(req.db, id).spotifyPlaylistId)
            THEN /\ req' = began
                 /\ last' = answer(409)
          ELSE /\ req' = [began EXCEPT
                            !.frames[r] = [pc |-> "profile", id |-> id,
                                           savedPlaylist |-> MapGet(req.db, id),
                                           newSpotifyPlaylist |-> Null]]
               /\ last' = NoOp
  /\ SavedFrame

(* await getSpotifyUserProfile(spotifyAccessToken) *)
CreateProfile(r) ==
  /\ req.frames[r].pc = "profile"
  /\ \E outcome \in SpotifyOutcomes :
       IF outcome = "ok"
       THEN /\ req' = [req EXCEPT !.frames[r].pc = "create"]
            /\ last' = NoOp
       ELSE /\ req' = [req EXCEPT !.frames[r] = IdleFrame]
            /\ last' = SavedAnswer(r, CatchStatus(outcome))
  /\ SavedFrame

(* await createSpotifyPlaylist(...): the playlist exists in the account    *)
(* once the call has succeeded                                             *)
CreatePlaylist(r) ==
  /\ req.frames[r].pc = "create"
  /\ \E outcome \in SpotifyOutcomes :
       IF outcome = "ok"
       THEN /\ req' = [req EXCEPT
                         !.created = Append(@, [forSaved |-> req.frames[r].id,
                                                 recorded |-> FALSE]),
                         !.frames[r].newSpotifyPlaylist =
                            Num(Len(req.created) + 1),
                         !.frames[r].pc =
                            IF req.frames[r].savedPlaylist.withUri
                            THEN "tracks" ELSE "record"]
            /\ last' = NoOp
       ELSE /\ req' = [req EXCEPT !.frames[r] = IdleFrame]
            /\ last' = SavedAnswer(r, CatchStatus(outcome))
  /\ SavedFrame

(* await addTracksToSpotifyPlaylist(...), when some song has a uri *)
CreateAddTracks(r) ==
  /\ req.frames[r].pc = "tracks"
  /\ \E outcome \in SpotifyOutcomes :
       IF outcome = "ok"
       THEN /\ req' = [req EXCEPT !.frames[r].pc = "record"]
            /\ last' = NoOp
       ELSE /\ req' = [req EXCEPT !.frames[r] = IdleFrame]
            /\ last' = SavedAnswer(r, CatchStatus(outcome))
  /\ SavedFrame

(* await savedPlaylist.addSpotifyInfo(newSpotifyPlaylist): save() writes   *)
(* the fields it set and throws when the document is gone                  *)
CreateRecord(r) ==
  /\ req.frames[r].pc = "record"
  /\ LET id == req.frames[r].id
         sp == req.frames[r].newSpotifyPlaylist
     IN IF MapHas(req.db, id)
        THEN /\ req' = [req EXCEPT
                          !.db = MapSet(@, id, [MapGet(@, id) EXCEPT
                                                  !.spotifyPlaylistId = sp]),
                          !.created[sp.n].recorded = TRUE,
                          !.frames[r] = IdleFrame]
             /\ last' = SavedAnswer(r, 200)
        ELSE /\ req' = [req EXCEPT !.frames[r] = IdleFrame]
             /\ last' = SavedAnswer(r, 500)
  /\ SavedFrame

InitSaved ==
  /\ impl = "PlaylistStore"
  /\ StoreInit
  /\ calls = [c \in CallIds |-> IdleCall]
  /\ req = IdleSaved

SavedNext ==
  \/ DeletePlaylist
  \/ \E r \in SavedFrames : CreateBegin(r)
  \/ \E r \in SavedFrames : CreateProfile(r)
  \/ \E r \in SavedFrames : CreatePlaylist(r)
  \/ \E r \in SavedFrames : CreateAddTracks(r)
  \/ \E r \in SavedFrames : CreateRecord(r)

SpecSaved == InitSaved /\ [][SavedNext]_vars

(***************************************************************************)
(* Initialization of the YouTube Music client (SpecInit).  `req` holds     *)
(* the service object, every promise _doInitialize() has returned, and the *)
(* frames of the callers that await initialize().                          *)
(***************************************************************************)
MaxInitCalls == 4

InitFrames == {1, 2}

(* who awaits initialize(): a direct caller, searchMultipleTracks, or      *)
(* getPlaylist through searchMultipleTracks                                *)
InitCallers == {"initialize", "searchMultipleTracks", "getPlaylist"}

NewService == [initialized |-> FALSE, initializationPromise |-> Null,
               promises |-> <<>>]

(* mutant of initialize: the promise of a running attempt is not reused *)
initializeAlways(svc) ==
  IF svc.initialized THEN [svc |-> svc, on |-> Null]
  ELSE [svc |-> [svc EXCEPT !.promises = Append(@, "pending"),
                            !.initializationPromise = Num(Len(svc.promises) + 1)],
        on |-> Num(Len(svc.promises) + 1)]

(* initialize(): the service after the call and the promise the caller     *)
(* awaits, Null for a call that returns at once                            *)
initialize(svc) ==
  IF svc.initialized THEN [svc |-> svc, on |-> Null]
  ELSE IF Truthy(svc.initializationPromise)
    THEN [svc |-> svc, on |-> svc.initializationPromise]
  ELSE [svc |-> [svc EXCEPT !.promises = Append(@, "pending"),
                            !.initializationPromise = Num(Len(svc.promises) + 1)],
        on |-> Num(Len(svc.promises) + 1)]

(* mutant of doInitialize: a failed attempt clears the stored promise *)
doInitializeForgets(svc, n, ok) ==
  IF ok THEN [svc EXCEPT !.initialized = TRUE, !.promises[n] = "fulfilled"]
  ELSE [svc EXCEPT !.promises[n] = "rejected",
                   !.initializationPromise = Null]

(* _doInitialize() after await this.ytmusic.initialize() has settled *)
doInitialize(svc, n, ok) ==
  IF ok THEN [svc EXCEPT !.initialized = TRUE, !.promises[n] = "fulfilled"]
  ELSE [svc EXCEPT !.promises[n] = "rejected"]

IdleInitFrame == [pc |-> "idle", kind |-> "initialize", on |-> Null,
                  late |-> FALSE, outcome |-> "none", error |-> 0, http |-> 0]

IdleYT == [pc |-> "yt", svc |-> NewService, called |-> 0,
           frames |-> [c \in InitFrames |-> IdleInitFrame]]

YTFrame ==
  UNCHANGED <<impl, now, ticks, im_playlists, im_searchCache, ps_playlists,
              ps_searchResults, nextGen, stores, calls, last>>

(* a caller runs initialize() up to its await *)
CallInitialize(c) ==
  /\ req.frames[c].pc # "awaiting"
  /\ req.called < MaxInitCalls
  /\ \E kind \in InitCallers :
       LET r == initialize(req.svc)
       IN req' = [req EXCEPT
                    !.svc = r.svc,
                    !.called = @ + 1,
                    !.frames[c] = [pc |-> "awaiting", kind |-> kind,
                                   on |-> r.on,
                                   late |-> /\ req.svc.promises # <<>>
                                            /\ req.svc.promises[1] # "pending",
                                   outcome |-> "none", error |-> 0,
                                   http |-> 0]]
  /\ YTFrame

(* this.ytmusic.initialize() of attempt n resolves or rejects *)
InitSettles ==
  /\ \E n \in 1..Len(req.svc.promises) : \E ok \in BOOLEAN :
       /\ req.svc.promises[n] = "pending"
       /\ req' = [req EXCEPT !.svc = doInitialize(req.svc, n, ok)]
  /\ YTFrame

(* the caller's await ends: it goes on, or the rejection is thrown to it;  *)
(* getPlaylist answers 500 from its catch                                  *)
InitResumes(c) ==
  /\ req.frames[c].pc = "awaiting"
  /\ LET on == req.frames[c].on
     IN /\ on # Null => req.svc.promises[on.n] # "pending"
        /\ IF on # Null /\ req.svc.promises[on.n] = "rejected"
           THEN req' = [req EXCEPT
                          !.frames[c].pc = "done",
                          !.frames[c].outcome = "thrown",
                          !.frames[c].error = on.n,
                          !.frames[c].http =
                             IF req.frames[c].kind = "getPlaylist"
                             THEN 500 ELSE 0]
           ELSE req' = [req EXCEPT !.frames[c].pc = "done",
                                   !.frames[c].outcome = "returned"]
  /\ YTFrame

InitYT ==
  /\ impl = "PlaylistStore"
  /\ StoreInit
  /\ calls = [c \in CallIds |-> IdleCall]
  /\ req = IdleYT

YTNext ==
  \/ \E c \in InitFrames : CallInitialize(c)
  \/ InitSettles
  \/ \E c \in InitFrames : InitResumes(c)

SpecInit == InitYT /\ [][YTNext]_vars

(***************************************************************************)
(* The two OAuth callbacks with their token exchange in flight             *)
(* (SpecCallback): handleSpotifyCallback of spotifyController.js over      *)
(* tempCodeVerifiers and handleCallback of spotifyAuthController.js over   *)
(* stateStore.  `req` holds both maps, the exchanges started so far and    *)
(* the frames of the callbacks that await their exchange.                  *)
(***************************************************************************)
MaxOAuthStates == 2

MaxCallbacks == 4

CallbackFrames == {1, 2}

Handlers == {"spotifyController", "spotifyAuthController"}

(* mutant of handleCallbackLookup: the state stays in stateStore *)
handleCallbackKeepsState(m, error, code, state) ==
  IF error THEN [store |-> m, accepted |-> FALSE, answer |-> "error"]
  ELSE IF ~Truthy(state) \/ ~MapHas(m, state)
    THEN [store |-> m, accepted |-> FALSE, answer |-> "invalid_state"]
  ELSE IF ~code
    THEN [store |-> m, accepted |-> FALSE, answer |-> "missing_code"]
  ELSE [store |-> m, accepted |-> TRUE, answer |-> "exchange"]

(* handleCallback up to the token request: stateStore after it, whether    *)
(* the exchange starts, and the error of the redirect otherwise            *)
handleCallbackLookup(m, error, code, state) ==
  IF error THEN [store |-> m, accepted |-> FALSE, answer |-> "error"]
  ELSE IF ~Truthy(state) \/ ~MapHas(m, state)
    THEN [store |-> m, accepted |-> FALSE, answer |-> "invalid_state"]
  ELSE IF ~code
    THEN [store |-> MapDelete(m, state), accepted |-> FALSE,
          answer |-> "missing_code"]
  ELSE [store |-> MapDelete(m, state), accepted |-> TRUE, answer |-> "exchange"]

(* handleSpotifyCallback up to exchangeCodeForToken: both 400 answers,     *)
(* then tempCodeVerifiers.delete(state)                                    *)
handleSpotifyCallbackLookup(m, code, state) ==
  IF ~code \/ ~Truthy(state)
    THEN [store |-> m, accepted |-> FALSE, answer |-> "missing"]
  ELSE IF ~MapHas(m, state)
    THEN [store |-> m, accepted |-> FALSE, answer |-> "invalid_state"]
  ELSE [store |-> MapDelete(m, state), accepted |-> TRUE, answer |-> "exchange"]

IdleCallbackFrame == [pc |-> "idle", handler |-> "spotifyController",
                      state |-> Null, exchange |-> 0]

IdleOAuth ==
  [pc |-> "oauth", tempCodeVerifiers |-> <<>>, stateStore |-> <<>>,
   issued |-> 0, callbacks |-> 0, exchanges |-> <<>>,
   frames |-> [c \in CallbackFrames |-> IdleCallbackFrame]]

OAuthFrame ==
  UNCHANGED <<impl, now, ticks, im_playlists, im_searchCache, ps_playlists,
              ps_searchResults, nextGen, stores, calls>>

(* initSpotifyAuth / initiateLogin store a fresh state *)
IssueState(h) ==
  /\ req.issued < MaxOAuthStates
  /\ LET state == AuthState(req.issued + 1)
     IN req' = IF h = "spotifyController"
               THEN [req EXCEPT
                       !.issued = @ + 1,
                       !.tempCodeVerifiers =
                          sweepCodeVerifiers(
                            MapSet(@, state, [key |-> state,
                                              codeVerifier |-> req.issued + 1,
                                              timestamp |-> now]), now)]
               ELSE [req EXCEPT
                       !.issued = @ + 1,
                       !.stateStore =
                          MapSet(@, state, [key |-> state,
                                            timestamp |-> now + TEN_MINUTES])]
  /\ last' = NoOp
  /\ OAuthFrame

(* a callback arrives and runs up to its token request *)
CallbackArrives(h, c) ==
  /\ req.frames[c].pc = "idle"
  /\ req.callbacks < MaxCallbacks
  /\ \E error, code \in BOOLEAN :
     \E state \in {Null} \cup {AuthState(n) : n \in 1..req.issued} :
       LET r == IF h = "spotifyController"
                THEN handleSpotifyCallbackLookup(req.tempCodeVerifiers, code, state)
                ELSE handleCallbackLookup(req.stateStore, error, code, state)
           stored == IF h = "spotifyController"
                     THEN [req EXCEPT !.tempCodeVerifiers = r.store,
                                      !.callbacks = @ + 1]
                     ELSE [req EXCEPT !.stateStore = r.store,
                                      !.callbacks = @ + 1]
       IN /\ req' = IF r.accepted
                    THEN [stored EXCEPT
                            !.exchanges = Append(@, [handler |-> h,
                                                     state |-> state,
                                                     outcome |-> "pending"]),
                            !.frames[c] = [pc |-> "exchanging", handler |-> h,
                                           state |-> state,
                                           exchange |-> Len(req.exchanges) + 1]]
                    ELSE stored
          /\ last' = [op |-> "callback", handler |-> h, state |-> state,
                      answer |-> r.answer,
                      usedBefore |-> \E k \in 1..Len(req.exchanges) :
                                       req.exchanges[k].state = state,
                      failedBefore |-> \E k \in 1..Len(req.exchanges) :
                                         /\ req.exchanges[k].state = state
                                         /\ req.exchanges[k].outcome = "failed"]
  /\ OAuthFrame

(* the token exchange of a callback succeeds or throws *)
ExchangeSettles(c) ==
  /\ req.frames[c].pc = "exchanging"
  /\ \E outcome \in {"ok", "failed"} :
       req' = [req EXCEPT !.exchanges[req.frames[c].exchange].outcome = outcome,
                          !.frames[c] = IdleCallbackFrame]
  /\ last' = NoOp
  /\ OAuthFrame

InitCallback ==
  /\ impl = "PlaylistStore"
  /\ StoreInit
  /\ calls = [c \in CallIds |-> IdleCall]
  /\ req = IdleOAuth

CallbackNext ==
  \/ \E h \in Handlers : IssueState(h)
  \/ \E h \in Handlers : \E c \in CallbackFrames : CallbackArrives(h, c)
  \/ \E c \in CallbackFrames : ExchangeSettles(c)

SpecCallback == InitCallback /\ [][CallbackNext]_vars

(***************************************************************************)
(* The temporary sessions of spotifyController.js (SpecSession).  `req`    *)
(* holds the session objects by session id, the ids that are keys of       *)
(* tempUserSessions, and the frames of the getSpotifySession requests      *)
(* that await a refresh; a frame keeps its reference to the session        *)
(* object while the key may be deleted and set again, and `seen` is the    *)
(* session as the request found it.                                        *)
(***************************************************************************)
MaxSessions == 1

MaxSessionTicks == 3

MaxRefreshes == 1

SessionFrames == {1, 2}

(* expires_in of a token response, in seconds *)
EXPIRES_IN == 3600

ONE_HOUR == 60 * 60 * 1000

(* mutant of tokenExpired: a token is still good at the instant it expires *)
tokenExpiredLate(sessionData, t) == t > sessionData.expiresAt

(* Date.now() >= sessionData.expiresAt *)
tokenExpired(sessionData, t) == t >= sessionData.expiresAt

IdleSessionFrame == [pc |-> "idle", sessionId |-> 0, seen |-> Null]

IdleSession ==
  [pc |-> "session", objects |-> <<>>, keys |-> {}, tokens |-> 0,
   refreshes |-> 0,
   frames |-> [c \in SessionFrames |-> IdleSessionFrame]]

SessionFrame ==
  UNCHANGED <<impl, im_playlists, im_searchCache, ps_playlists,
              ps_searchResults, nextGen, stores, calls>>

(* handleSpotifyCallback after the exchange: the session is stored, then   *)
(* the sessions older than an hour are removed                             *)
CreateSession ==
  /\ Len(req.objects) < MaxSessions
  /\ \E refreshToken \in BOOLEAN :
       LET sessionId == Len(req.objects) + 1
           objects == Append(req.objects,
                             [accessToken |-> req.tokens + 1,
                              refreshToken |-> refreshToken,
                              expiresAt |-> now + EXPIRES_IN * 1000,
                              timestamp |-> now])
       IN req' = [req EXCEPT
                    !.objects = objects,
                    !.tokens = @ + 1,
                    !.keys = {k \in @ \cup {sessionId} :
                                ~(objects[k].timestamp < now - ONE_HOUR)}]
  /\ last' = NoOp
  /\ UNCHANGED <<now, ticks>>
  /\ SessionFrame

SessionAnswer(http, sessionId, sessionData, before, refreshed) ==
  [op |-> "getSpotifySession", http |-> http, sessionId |-> sessionId,
   at |-> now, refreshed |-> refreshed,
   wasExpired |-> before # Null /\ now >= before.expiresAt,
   accessToken |-> IF http = 200 THEN sessionData.accessToken ELSE 0,
   expiresAt |-> IF http = 200 THEN sessionData.expiresAt ELSE 0,
   oldToken |-> IF before = Null THEN 0 ELSE before.accessToken,
   oldExpiresAt |-> IF before = Null THEN 0 ELSE before.expiresAt]

(* getSpotifySession up to its answer or to `await refreshSpotifyToken` *)
GetSpotifySession(c) ==
  /\ req.frames[c].pc = "idle"
  /\ \E sessionId \in 0..Len(req.objects) :
       IF sessionId = 0
       THEN /\ req' = req
            /\ last' = SessionAnswer(400, sessionId, Null, Null, FALSE)
       ELSE IF sessionId \notin req.keys
       THEN /\ req' = req
            /\ last' = SessionAnswer(404, sessionId, Null, Null, FALSE)
       ELSE LET sessionData == req.objects[sessionId]
            IN IF ~tokenExpired(sessionData, now)
               THEN /\ req' = req
                    /\ last' = SessionAnswer(200, sessionId, sessionData,
                                             sessionData, FALSE)
               ELSE IF sessionData.refreshToken
               THEN /\ req' = [req EXCEPT !.frames[c] =
                                 [pc |-> "refresh", sessionId |-> sessionId,
                                  seen |-> sessionData]]
                    /\ last' = NoOp
               ELSE /\ req' = [req EXCEPT !.keys = @ \ {sessionId}]
                    /\ last' = SessionAnswer(401, sessionId, Null,
                                             sessionData, FALSE)
  /\ UNCHANGED <<now, ticks>>
  /\ SessionFrame

(* refreshSpotifyToken returns a token or throws *)
RefreshReturns(c) ==
  /\ req.frames[c].pc = "refresh"
  /\ LET sessionId == req.frames[c].sessionId
         before == req.objects[sessionId]
         after == [before EXCEPT !.accessToken = req.tokens + 1,
                                 !.expiresAt = now + EXPIRES_IN * 1000,
                                 !.timestamp = now]
     IN \E ok \in BOOLEAN :
          IF ok
          THEN /\ req' = [req EXCEPT !.objects[sessionId] = after,
                                     !.tokens = @ + 1,
                                     !.keys = @ \cup {sessionId},
                                     !.frames[c] = IdleSessionFrame]
               /\ last' = SessionAnswer(200, sessionId, after,
                                        req.frames[c].seen, TRUE)
          ELSE /\ req' = [req EXCEPT !.keys = @ \ {sessionId},
                                     !.frames[c] = IdleSessionFrame]
               /\ last' = SessionAnswer(401, sessionId, Null,
                                        req.frames[c].seen, FALSE)
  /\ UNCHANGED <<now, ticks>>
  /\ SessionFrame

(* refreshSpotifyAccessToken, once refreshSpotifyToken has returned, for a *)
(* session that is stored                                                  *)
RefreshSpotifyAccessToken ==
  /\ req.refreshes < MaxRefreshes
  /\ \E sessionId \in req.keys :
       req' = [req EXCEPT
                 !.objects[sessionId] =
                    [@ EXCEPT !.accessToken = req.tokens + 1,
                              !.expiresAt = now + EXPIRES_IN * 1000,
                              !.timestamp = now],
                 !.tokens = @ + 1,
                 !.refreshes = @ + 1]
  /\ last' = NoOp
  /\ UNCHANGED <<now, ticks>>
  /\ SessionFrame

(* time passes: a millisecond, or the lifetime of a token *)
SessionTick ==
  /\ ticks < MaxSessionTicks
  /\ \E d \in {1, EXPIRES_IN * 1000 - 1} : now' = now + d
  /\ ticks' = ticks + 1
  /\ last' = NoOp
  /\ UNCHANGED req
  /\ SessionFrame

InitSession ==
  /\ impl = "PlaylistStore"
  /\ StoreInit
  /\ calls = [c \in CallIds |-> IdleCall]
  /\ req = IdleSession

SessionNext ==
  \/ CreateSession
  \/ \E c \in SessionFrames : GetSpotifySession(c)
  \/ \E c \in SessionFrames : RefreshReturns(c)
  \/ RefreshSpotifyAccessToken
  \/ SessionTick

SpecSession == InitSession /\ [][SessionNext]_vars

(***************************************************************************)
(*                               CLAIMS                                    *)
(***************************************************************************)

(* A step that is a read `op` of the store: only reads set last.op to the  *)
(* name of a read, and they leave the clock alone.                         *)
ReadStep(op) == last'.op = op /\ now' = now

(* What a lazy-expiring read of key k must do to map m, whose entries      *)
(* carry their time in field ts and expire after `expiry`: m2 is the map   *)
(* and r the value returned after the read, v the value a hit returns.     *)
LazyRead(m, m2, k, age, expiry, r, v) ==
  IF age > expiry
  THEN /\ r = Null
       /\ ~MapHas(m2, k)
       /\ m2 = MapDelete(m, k)
  ELSE /\ r = v
       /\ m2 = m

(* C2: in both stores and both namespaces, a get of an entry older than    *)
(* the namespace's expiry returns a miss and removes the entry in the same *)
(* read, whether or not a sweep ran; a get of an entry not older than the  *)
(* expiry returns the stored value and leaves the map unchanged.           *)
C2_LazyExpiryOnRead ==
  [][/\ (impl = "InMemoryStore" /\ ReadStep("getPlaylist")
            /\ MapHas(im_playlists, last'.arg)) =>
          LazyRead(im_playlists, im_playlists', last'.arg,
                   now - MapGet(im_playlists, last'.arg).createdAt,
                   30 * 60 * 1000, last'.ret,
                   MapGet(im_playlists, last'.arg))
     /\ (impl = "InMemoryStore" /\ ReadStep("getSearchResult")
            /\ MapHas(im_searchCache, normalizeQuery(last'.arg))) =>
          LazyRead(im_searchCache, im_searchCache', normalizeQuery(last'.arg),
                   now - MapGet(im_searchCache, normalizeQuery(last'.arg)).timestamp,
                   10 * 60 * 1000, last'.ret,
                   MapGet(im_searchCache, normalizeQuery(last'.arg)).result)
     /\ (impl = "PlaylistStore" /\ ReadStep("getPlaylist")
            /\ MapHas(ps_playlists, last'.arg)) =>
          LazyRead(ps_playlists, ps_playlists', last'.arg,
                   now - MapGet(ps_playlists, last'.arg).timestamp,
                   24 * 60 * 60 * 1000, last'.ret,
                   MapGet(ps_playlists, last'.arg))
     /\ (impl = "PlaylistStore" /\ ReadStep("getSearchResult")
            /\ MapHas(ps_searchResults, last'.arg)) =>
          LazyRead(ps_searchResults, ps_searchResults', last'.arg,
                   now - MapGet(ps_searchResults, last'.arg).timestamp,
                   4 * 60 * 60 * 1000, last'.ret,
                   MapGet(ps_searchResults, last'.arg).result)
    ]_vars

(* C2 witness: a read of a playlist that was stored, has expired and was   *)
(* not swept has just returned a miss, and the entry is gone.              *)
C2_Witness ==
  /\ impl = "PlaylistStore"
  /\ last.op = "getPlaylist"
  /\ last.path = "expired"
  /\ last.ret = Null
  /\ ~MapHas(ps_playlists, last.arg)

(* C3 (as claimed): after any sequence of inserts each cache map holds at  *)
(* most `capacity` entries.                                                *)
C3_EveryMapBounded ==
  /\ Len(im_playlists) <= maxCacheSize
  /\ Len(im_searchCache) <= maxCacheSize
  /\ Len(ps_playlists) <= maxCacheSize
  /\ Len(ps_searchResults) <= maxCacheSize


(***************************************************************************)
(* C4: in a finished resolveMany call of either provider there is one      *)
(* result per candidate and the call has not thrown; the result of a       *)
(* candidate whose resolution threw or whose request failed is marked not  *)
(* found (youtubeMusic = null; uri = null and found = false), and the      *)
(* result of every other candidate is what it is without any failure.      *)
(***************************************************************************)
Failed(call, j) == call.paths[j] \in {"error", "threw"}

NotFound(provider, r) ==
  IF provider = "yt" THEN r.youtubeMusic = Null
  ELSE r.uri = Null /\ r.found = FALSE

Resolvable(song) ==
  /\ Truthy(song.title)
  /\ ~buildQueryThrows(song)
  /\ ProviderAnswer(buildQuery(song)) = "match"

Unfailed(provider, song) ==
  IF provider = "yt"
  THEN [title |-> song.title, artist |-> song.artist,
        youtubeMusic |-> IF Resolvable(song) THEN YtTrack(buildQuery(song))
                         ELSE Null]
  ELSE [title |-> song.title, artist |-> song.artist,
        uri |-> IF Resolvable(song) THEN SpotifyUri(buildQuery(song)) ELSE Null,
        found |-> Resolvable(song)]

C4_FailureIsolated ==
  \A c \in CallIds :
    /\ calls[c].pc # "thrown"
    /\ calls[c].pc = "done" =>
         /\ Len(calls[c].results) = Len(calls[c].songs)
         /\ \A j \in 1..Len(calls[c].songs) :
              IF Failed(calls[c], j)
              THEN NotFound(calls[c].provider, calls[c].results[j])
              ELSE calls[c].results[j]
                     = Unfailed(calls[c].provider, calls[c].songs[j])

(* both providers: a finished call in which one candidate threw, the       *)
(* request of another failed and a third candidate was found               *)
C4_Witness ==
  /\ calls[1].provider = "yt" /\ calls[1].pc = "done"
  /\ calls[1].paths[2] = "threw"
  /\ calls[1].paths[1] = "error"
  /\ calls[1].results[4].youtubeMusic # Null
  /\ calls[2].provider = "sp" /\ calls[2].pc = "done"
  /\ calls[2].paths[2] = "error"
  /\ calls[2].results[1].found /\ calls[2].results[5].found

(***************************************************************************)
(* C5: at every moment of a resolveMany call the i-th result pushed is the *)
(* result for the i-th input candidate: it carries that candidate's title  *)
(* and artist, and what it found is for that candidate's query.            *)
(***************************************************************************)
ResultIsFor(provider, r, song) ==
  /\ r.title = song.title
  /\ r.artist = song.artist
  /\ IF provider = "yt"
     THEN r.youtubeMusic \in {Null, Unfailed("yt", song).youtubeMusic}
     ELSE r.uri \in {Null, Unfailed("sp", song).uri}

C5_OutputKeepsInputOrder ==
  \A c \in CallIds :
    /\ Len(calls[c].results) <= Len(calls[c].songs)
    /\ \A j \in 1..Len(calls[c].results) :
         ResultIsFor(calls[c].provider, calls[c].results[j], calls[c].songs[j])

(* a finished call of several batches in which a request completed before *)
(* an earlier request of its batch, with found results                     *)
C5_Witness ==
  \E c \in CallIds :
    /\ calls[c].pc = "done"
    /\ calls[c].reordered
    /\ Len(calls[c].results) = 6
    /\ \A j \in 1..5 : j # 3 => calls[c].results[j].found

(***************************************************************************)
(* C6: a resolveMany call never has more provider requests in flight than  *)
(* its batch size (3 for YouTube Music, 5 for Spotify), and it issues the  *)
(* requests of a batch only when no request of the batch before is in      *)
(* flight and all its results have been pushed.                            *)
(***************************************************************************)
Issues(c) ==
  /\ calls'[c].pending # {}
  /\ \/ calls[c].pc = "idle"
     \/ calls'[c].i # calls[c].i

C6_BatchBound ==
  [][\A c \in CallIds :
       /\ InFlight(calls'[c]) <= (IF calls'[c].provider = "yt" THEN 3 ELSE 5)
       /\ Issues(c) =>
            /\ calls[c].pending = {}
            /\ Len(calls'[c].results) = calls'[c].i
            /\ \A k \in calls'[c].pending :
                 calls'[c].i + k <= Len(calls'[c].songs)]_vars

(* two calls run side by side, each with a full batch in flight *)
C6_Witness ==
  /\ calls[1].provider = "yt" /\ InFlight(calls[1]) = 3
  /\ calls[2].provider = "yt" /\ InFlight(calls[2]) = 3
  /\ calls[2].i = 0

(* two Spotify calls side by side, the first in its second batch *)
C6_WitnessSpotify ==
  /\ calls[1].provider = "sp" /\ calls[1].i = 5 /\ InFlight(calls[1]) = 1
  /\ calls[2].provider = "sp" /\ InFlight(calls[2]) = 5

(***************************************************************************)
(* What the generate request resolved: N candidates, of which the set      *)
(* Resolved (positions) was found on YouTube Music.                        *)
(***************************************************************************)
Answered == req.pc = "responded" /\ req.resolveCalls = 1

Candidates == Len(req.playlistData.songs.items)

Resolved ==
  {k \in 1..Len(req.songsWithVideoIds) :
     req.songsWithVideoIds[k].youtubeMusic # Null}

(* the k-th resolved candidate, in input order *)
RECURSIVE NthResolved(_, _)
NthResolved(k, from) ==
  IF from \in Resolved
  THEN (IF k = 1 THEN from ELSE NthResolved(k - 1, from + 1))
  ELSE NthResolved(k, from + 1)

PrimaryPartAsWithoutToken ==
  /\ req.response.http = 200
  /\ req.response.status =
       (IF Cardinality(Resolved) = Candidates THEN "success" ELSE "partial")
  /\ req.response.data.totalSongs = Cardinality(Resolved)
  /\ req.response.data.originalSongsCount = Candidates
  /\ Len(req.response.data.songs) = Cardinality(Resolved)
  /\ \A k \in 1..Cardinality(Resolved) :
       LET c == req.songsWithVideoIds[NthResolved(k, 1)]
       IN /\ req.response.data.songs[k].originalTitle = c.title
          /\ req.response.data.songs[k].originalArtist = c.artist
          /\ req.response.data.songs[k].videoId = c.youtubeMusic.videoId

(***************************************************************************)
(* C1: after a generate request has answered success or partial with a     *)
(* playlist of id X, a lookup of X before the playlist expires finds that  *)
(* playlist (same title, description and songs), the cache key being the   *)
(* reported id; a lookup of an id nothing was stored under is not found.   *)
(***************************************************************************)
C1_LookupFindsReportedPlaylist ==
  /\ (/\ req.pc = "responded"
      /\ req.response.http = 200
      /\ last.op = "getPlaylistById"
      /\ last.arg = req.response.data.id
      /\ now - req.storedAt <= EXPIRATION_TIME)
     => /\ last.http = 200
        /\ last.ret.key = req.response.data.id
        /\ last.ret.value.type = "playlist"
        /\ last.ret.value.title = req.response.data.title
        /\ last.ret.value.description = req.response.data.description
        /\ last.ret.value.songs = req.response.data.songs
  /\ (last.op = "getPlaylistById" /\ last.path = "absent") => last.http = 404

(***************************************************************************)
(* C7: the fallback generation is called at most once and only after the   *)
(* primary generation threw; when the fallback then returns a playlist the *)
(* request goes on to resolution, and its answer is the one the resolved   *)
(* candidates give, with nothing in it about the primary failure.          *)
(***************************************************************************)
C7_FallbackOnlyAfterPrimaryThrew ==
  /\ req.primaryCalls <= 1
  /\ req.fallbackCalls <= 1
  /\ req.fallbackCalls = 1 => (req.primaryCalls = 1 /\ req.primaryThrew)
  /\ (req.primaryThrew /\ req.playlistData # Null) => req.resolveCalls = 1
  /\ (Answered /\ req.primaryThrew /\ Cardinality(Resolved) > 0) =>
       /\ DOMAIN req.response = {"http", "status", "data"}
       /\ PrimaryPartAsWithoutToken
       /\ req.response.data.title = req.playlistData.title

(* the primary threw, the fallback returned four candidates, all resolved *)
C7_Witness ==
  /\ req.pc = "responded"
  /\ req.primaryThrew /\ req.fallbackCalls = 1
  /\ req.response.http = 200 /\ req.response.status = "success"
  /\ req.response.data.totalSongs = 4

(***************************************************************************)
(* C8: when the primary and the fallback generation both throw, the        *)
(* request has answered with a failure, no resolution was started and the  *)
(* playlist cache has no entry.                                            *)
(***************************************************************************)
C8_BothGenerationsThrow ==
  req.fallbackThrew =>
    /\ req.primaryThrew
    /\ req.pc = "responded"
    /\ req.response.http = 500
    /\ req.response.status = "error"
    /\ req.response.data = Null
    /\ req.resolveCalls = 0
    /\ \A c \in CallIds : calls[c].pc = "idle"
    /\ ps_playlists = <<>>
    /\ nextGen = 0

C8_Witness ==
  /\ req.primaryThrew /\ req.fallbackThrew
  /\ req.pc = "responded"
  /\ req.token = "valid"

(***************************************************************************)
(* C9: with N candidates generated and F of them resolved on YouTube       *)
(* Music, F = 0 is answered with the not-found error, 0 < F < N with       *)
(* status partial and F = N > 0 with status success; when F > 0 the        *)
(* playlist has totalSongs = F, originalSongsCount = N and as songs the F  *)
(* resolved candidates in input order.                                     *)
(***************************************************************************)
C9_StatusFollowsResolved ==
  Answered =>
    IF Cardinality(Resolved) = 0
    THEN /\ req.response.http = 404
         /\ req.response.status = "error"
         /\ req.response.data = Null
    ELSE /\ PrimaryPartAsWithoutToken
         /\ Cardinality(Resolved) < Candidates => req.response.status = "partial"
         /\ Cardinality(Resolved) = Candidates => req.response.status = "success"

(* one of three candidates resolved, and it is not the last one *)
C9_Witness ==
  /\ Answered
  /\ req.response.status = "partial"
  /\ req.response.data.totalSongs = 1
  /\ req.response.data.originalSongsCount = 3

(***************************************************************************)
(* C10: when the Spotify branch of a generate request failed, the answer   *)
(* is the one a request without a token gets (status, songs, totalSongs,   *)
(* originalSongsCount) and the playlist is in the cache under its id.      *)
(***************************************************************************)
SpotifyBranchFailed == Answered /\ req.spotifyFailed

C10_SpotifyFailureLeavesAnswer ==
  SpotifyBranchFailed =>
    /\ PrimaryPartAsWithoutToken
    /\ req.response.data.spotify = Null
    /\ now - req.storedAt <= EXPIRATION_TIME =>
         /\ MapHas(ps_playlists, req.response.data.id)
         /\ MapGet(ps_playlists, req.response.data.id).value.type = "playlist"

(* the part of C10 about the answer alone *)
C10_AnswerPart ==
  SpotifyBranchFailed =>
    /\ PrimaryPartAsWithoutToken
    /\ req.response.data.spotify = Null

(***************************************************************************)
(* A playlist as the validation rule of the generator wants it: a truthy   *)
(* title and description and 1 to 10 songs, each with a string title and   *)
(* a string artist.                                                        *)
(***************************************************************************)
ValidPlaylist(v) ==
  /\ v # Thrown
  /\ v.type = "object"
  /\ Truthy(v.title)
  /\ Truthy(v.description)
  /\ v.songs.type = "array"
  /\ Len(v.songs.items) \in 1..10
  /\ \A k \in 1..Len(v.songs.items) :
       /\ v.songs.items[k].title.type = "string"
       /\ v.songs.items[k].artist.type = "string"

(***************************************************************************)
(* C11: whatever the text, parseJsonFromGeminiResponse returns, without    *)
(* throwing, an object with a non-empty title, a non-empty description and *)
(* a non-empty songs array.                                                *)
(***************************************************************************)
C11_ParserAlwaysYieldsPlaylist ==
  last.op = "parseJsonFromGeminiResponse" =>
    /\ last.ret # Thrown
    /\ last.ret.type = "object"
    /\ Truthy(last.ret.title)
    /\ Truthy(last.ret.description)
    /\ last.ret.songs.type = "array"
    /\ Len(last.ret.songs.items) > 0

(* the part of C11 the repairing parser does keep: it never throws *)
C11_RepairNeverThrows ==
  (last.op = "parseJsonFromGeminiResponse" /\ last.module = "part_007") =>
    last.ret # Thrown

(***************************************************************************)
(* C12: when the parsed answer holds more than 10 songs the generator      *)
(* returns its first 10 in their order; when it holds 1 to 10 it returns   *)
(* the same songs in the same order.                                       *)
(***************************************************************************)
C12_TruncatesToFirstTen ==
  (last.op = "generateClassicalPlaylist" /\ last.ret # Thrown) =>
    /\ Len(last.ret.songs.items) =
         (IF Len(last.arg.songs.items) > 10 THEN 10 ELSE Len(last.arg.songs.items))
    /\ \A k \in 1..Len(last.ret.songs.items) :
         last.ret.songs.items[k] = last.arg.songs.items[k]

C12_Witness ==
  /\ last.op = "generateClassicalPlaylist"
  /\ last.ret # Thrown
  /\ Len(last.arg.songs.items) = 11
  /\ Len(last.ret.songs.items) = 10

(***************************************************************************)
(* C13: what generateClassicalPlaylist returns is a valid playlist, and a  *)
(* parsed answer that is no valid playlist but for its length makes it     *)
(* throw.                                                                  *)
(***************************************************************************)
ValidButLength(v) ==
  /\ v # Thrown
  /\ v.type = "object"
  /\ Truthy(v.title)
  /\ Truthy(v.description)
  /\ v.songs.type = "array"
  /\ Len(v.songs.items) >= 1
  /\ \A k \in 1..Len(v.songs.items) :
       /\ v.songs.items[k].title.type = "string"
       /\ v.songs.items[k].artist.type = "string"

C13_PrimaryReturnsOnlyValid ==
  last.op = "generateClassicalPlaylist" =>
    /\ last.ret # Thrown => ValidPlaylist(last.ret)
    /\ ~ValidButLength(last.arg) => last.ret = Thrown

(* an answer whose second song has a number for a title is thrown out *)
C13_Witness ==
  /\ last.op = "generateClassicalPlaylist"
  /\ last.arg # Thrown
  /\ last.arg.type = "object"
  /\ last.arg.songs.type = "array"
  /\ Len(last.arg.songs.items) = 2
  /\ last.arg.songs.items[2].title.type = "number"
  /\ last.ret = Thrown

(***************************************************************************)
(* C14: what generateFallbackClassicalPlaylist returns is a valid playlist *)
(* under the rule of the primary generation, and a parsed answer that      *)
(* breaks the rule makes it throw.                                         *)
(***************************************************************************)
C14_FallbackReturnsOnlyValid ==
  last.op = "generateFallbackClassicalPlaylist" =>
    /\ last.ret # Thrown => ValidPlaylist(last.ret)
    /\ ~ValidButLength(last.arg) => last.ret = Thrown

(* the fallback of the second module does validate *)
C14_SecondModuleValidates ==
  (last.op = "generateFallbackClassicalPlaylist" /\ last.module = "part_007") =>
    /\ last.ret # Thrown => ValidPlaylist(last.ret)
    /\ ~ValidButLength(last.arg) => last.ret = Thrown

(***************************************************************************)
(* C16: the list an accepted refinement returns is a permutation of the    *)
(* eligible tracks: the same URIs, each as often as in the input, none     *)
(* dropped, repeated or added.                                             *)
(***************************************************************************)
Occurrences(seq, uri) == Cardinality({k \in 1..Len(seq) : seq[k].uri = uri})

C16_RefinementIsPermutation ==
  (last.op = "refinePlaylistWithAudioFeatures" /\ last.ret # Thrown) =>
    /\ Len(last.ret.items) = Len(SelectSeq(last.arg.songs, LAMBDA x : x.uri # Null))
    /\ \A k \in 1..Len(last.ret.items) :
         Occurrences(last.ret.items, last.ret.items[k].uri)
           = Occurrences(last.arg.songs, last.ret.items[k].uri)

(* the part of C16 the code does keep: no URI from outside the input *)
C16_NoForeignUri ==
  (last.op = "refinePlaylistWithAudioFeatures" /\ last.ret # Thrown) =>
    \A k \in 1..Len(last.ret.items) :
      \E j \in 1..Len(last.arg.songs) : last.arg.songs[j].uri = last.ret.items[k].uri

(***************************************************************************)
(* C17: what the caller of the Spotify search gets when the provider       *)
(* rejects the credential (401) differs from what it gets for a transient  *)
(* failure and from what it gets when nothing matches.                     *)
(***************************************************************************)
C17_CredentialFailureDistinct ==
  last.op = "searchSpotifyTrack" =>
    /\ last.ret["unauthorized"] # last.ret["error"]
    /\ last.ret["unauthorized"] # last.ret["empty"]

(***************************************************************************)
(* C20: the scorer returns no match for an empty list, the element of a    *)
(* one-element list whatever its similarity, and otherwise the one result  *)
(* its inputs determine: the earliest of those with the highest score.     *)
(***************************************************************************)
Best(a) == {k \in 1..Len(a.results) :
              \A j \in 1..Len(a.results) :
                score3000(a.provider, a.results[j], a.title, a.artist)
                  <= score3000(a.provider, a.results[k], a.title, a.artist)}

C20_ScorerIsAFunction ==
  last.op = "findBestMatch" =>
    IF Len(last.arg.results) = 0 THEN last.ret = Null
    ELSE IF Len(last.arg.results) = 1 THEN last.ret = last.arg.results[1]
    ELSE \E k \in Best(last.arg) :
           /\ last.ret = last.arg.results[k]
           /\ \A j \in Best(last.arg) : k <= j

(* a single result that shares no word with the query is returned *)
C20_Witness ==
  /\ last.op = "findBestMatch"
  /\ Len(last.arg.results) = 1
  /\ score3000(last.arg.provider, last.arg.results[1],
               last.arg.title, last.arg.artist) = 0
  /\ last.ret = last.arg.results[1]

(***************************************************************************)
(* C19: the songs of a playlist the generate flow returns are, through     *)
(* originalTitle and originalArtist, an order-preserving subsequence of    *)
(* the generated candidates; each comes from a candidate the provider has  *)
(* a match for and carries the videoId of that match.                      *)
(***************************************************************************)
FromCandidate(song, candidate) ==
  /\ song.originalTitle = candidate.title
  /\ song.originalArtist = candidate.artist
  /\ Resolvable(candidate)
  /\ song.videoId = YtTrack(buildQuery(candidate)).videoId

(* songs[i..] embeds, in order, into candidates[j..] *)
RECURSIVE Embeds(_, _, _, _)
Embeds(songs, i, candidates, j) ==
  IF i > Len(songs) THEN TRUE
  ELSE IF j > Len(candidates) THEN FALSE
  ELSE IF FromCandidate(songs[i], candidates[j])
  THEN Embeds(songs, i + 1, candidates, j + 1)
  ELSE Embeds(songs, i, candidates, j + 1)

C19_NoFabricatedSongs ==
  (Answered /\ req.response.data # Null) =>
    Embeds(req.response.data.songs, 1, req.playlistData.songs.items, 1)

(* a playlist was returned that leaves out the second of its candidates   *)
(* and keeps the first and the third                                       *)
C19_Witness ==
  /\ Answered
  /\ req.response.data # Null
  /\ Candidates >= 3
  /\ Len(req.response.data.songs) >= 2
  /\ 2 \notin Resolved
  /\ req.response.data.songs[1].originalTitle = req.playlistData.songs.items[1].title
  /\ req.response.data.songs[2].originalTitle = req.playlistData.songs.items[3].title

(***************************************************************************)
(* C15: in createSpotifyPlaylistDirect with refinement asked for, when the *)
(* refinement fails (a uri from outside the eligible set, a song object    *)
(* that is not valid, a failure of the model call) it is given up: the     *)
(* playlist is made of the list found before it, in that order, and the    *)
(* request succeeds unless Spotify then refuses to create or fill it.      *)
(***************************************************************************)
RefinementFailed ==
  /\ req.refinement # "none"
  /\ refinePlaylistWithAudioFeatures(songsWithFeatures(req.foundSongs),
                                     req.answer) = Thrown

C15_FailedRefinementIsAbandoned ==
  RefinementFailed =>
    /\ req.refinement = "abandoned"
    /\ req.tracks = req.foundSongs
    /\ req.pc = "responded" =>
         IF req.error # Null
         THEN req.error.from \in {"spotify", "spotify401"}
         ELSE /\ req.response.http = 200
              /\ req.response.data.tracks = responseTracks(req.foundSongs)

(* a request succeeded whose refinement answered with a uri from elsewhere *)
C15_Witness ==
  /\ req.pc = "responded"
  /\ req.response.http = 200
  /\ req.refinement = "abandoned"
  /\ req.answer # Thrown
  /\ \E k \in 1..Len(req.answer.items) :
       \A j \in 1..Len(req.foundSongs) :
         req.answer.items[k].uri # req.foundSongs[j].uri

(***************************************************************************)
(* C18: createSpotifyPlaylistDirect answers 401 exactly when a Spotify     *)
(* call rejected the credential; a request whose two generations failed is *)
(* never answered 401.                                                     *)
(***************************************************************************)
C18_CredentialFailureIffRejected ==
  req.pc = "responded" =>
    /\ (req.response.http = 401) <=> req.spotifyRejected
    /\ req.generationFailed => req.response.http # 401

(* the direction the code keeps: a rejected credential is answered 401 *)
C18_RejectedIsReported ==
  (req.pc = "responded" /\ req.spotifyRejected) => req.response.http = 401

(***************************************************************************)
(* C21: for two or more results the scorer returns a result whose score    *)
(* is the highest of the list, and of several with that score the one      *)
(* that comes first in the list.                                           *)
(***************************************************************************)
ScoreOf(a, k) == score3000(a.provider, a.results[k], a.title, a.artist)

C21_FirstOfHighestScore ==
  (last.op = "findBestMatch" /\ Len(last.arg.results) >= 2) =>
    \E k \in 1..Len(last.arg.results) :
      /\ last.ret = last.arg.results[k]
      /\ \A j \in 1..Len(last.arg.results) : ScoreOf(last.arg, j) <= ScoreOf(last.arg, k)
      /\ \A j \in 1..(k - 1) : ScoreOf(last.arg, j) < ScoreOf(last.arg, k)

(* two different results share the highest score, neither is the head of   *)
(* the list, and the earlier of the two is returned                        *)
C21_Witness ==
  /\ last.op = "findBestMatch"
  /\ Len(last.arg.results) = 3
  /\ last.arg.results[2] # last.arg.results[3]
  /\ ScoreOf(last.arg, 2) = ScoreOf(last.arg, 3)
  /\ ScoreOf(last.arg, 1) < ScoreOf(last.arg, 2)
  /\ last.ret = last.arg.results[2]

(***************************************************************************)
(* C22: the add-tracks request holds at most 100 uris, none twice: the     *)
(* first 100 distinct uris of the input in the order of their first        *)
(* occurrence.  For an empty input no request is sent.                     *)
(***************************************************************************)
FirstAt(seq, x) == CHOOSE k \in 1..Len(seq) : seq[k] = x /\ \A j \in 1..(k - 1) : seq[j] # x

Distinct(seq) == {seq[k] : k \in 1..Len(seq)}

C22_RequestHoldsFirstHundredDistinct ==
  last.op = "addTracksToSpotifyPlaylist" =>
    IF last.arg.trackUris = <<>> THEN last.ret = Null
    ELSE /\ last.ret # Null
         /\ Len(last.ret.uris) <= 100
         /\ Len(last.ret.uris) = Cardinality(Distinct(last.ret.uris))
         /\ Distinct(last.ret.uris) \subseteq Distinct(last.arg.trackUris)
         /\ \A i, j \in 1..Len(last.ret.uris) :
              i < j => FirstAt(last.arg.trackUris, last.ret.uris[i])
                         < FirstAt(last.arg.trackUris, last.ret.uris[j])
         /\ \A x \in Distinct(last.arg.trackUris) \ Distinct(last.ret.uris) :
              /\ Len(last.ret.uris) = 100
              /\ \A y \in Distinct(last.ret.uris) :
                   FirstAt(last.arg.trackUris, y) < FirstAt(last.arg.trackUris, x)

(* more than 100 distinct uris, some of them twice, and 100 were sent *)
C22_Witness ==
  /\ last.op = "addTracksToSpotifyPlaylist"
  /\ Cardinality(Distinct(last.arg.trackUris)) > 100
  /\ Len(last.arg.trackUris) > Cardinality(Distinct(last.arg.trackUris))
  /\ last.ret # Null
  /\ Len(last.ret.uris) = 100

(***************************************************************************)
(* C23: for both providers the search cache is asked before the provider.  *)
(* No provider search is issued for a candidate while the cache holds an   *)
(* unexpired match under the candidate's normalized query, and a search    *)
(* that the provider answered leaves its outcome in the cache under that   *)
(* normalized key.                                                         *)
(***************************************************************************)
(* the positions of call c whose provider search is issued in this step *)
IssuedNow(c) ==
  {p \in 1..Len(calls'[c].paths) :
     p > Len(calls[c].paths) /\ calls'[c].paths[p] = "request"}

(* the positions of call c whose provider search is answered in this step *)
AnsweredNow(c) ==
  {p \in 1..Len(calls[c].paths) :
     /\ calls[c].paths[p] = "request"
     /\ Len(calls'[c].paths) >= p
     /\ calls'[c].paths[p] \in {"match", "empty"}}

FreshMatch(cache, query, t) ==
  \E i \in 1..Len(cache) :
    /\ normalizeQuery(cache[i].key) = normalizeQuery(query)
    /\ ~PS_searchExpired(cache[i], t)
    /\ cache[i].result # Null

C23_CacheBeforeProvider ==
  [][\A c \in CallIds :
       /\ \A p \in IssuedNow(c) :
            ~FreshMatch(ps_searchResults, buildQuery(calls'[c].songs[p]), now)
       /\ \A p \in AnsweredNow(c) :
            MapHas(ps_searchResults',
                   normalizeQuery(buildQuery(calls[c].songs[p])))]_vars

(* what the YouTube Music client does keep: no search while the cache has  *)
(* an unexpired match under the query as built                             *)
C23_YoutubeAsksCacheFirst ==
  [][\A c \in CallIds :
       calls'[c].provider = "yt" =>
         \A p \in IssuedNow(c) :
           ~(/\ MapHas(ps_searchResults, buildQuery(calls'[c].songs[p]))
             /\ ~PS_searchExpired(MapGet(ps_searchResults,
                                         buildQuery(calls'[c].songs[p])), now)
             /\ MapGet(ps_searchResults,
                       buildQuery(calls'[c].songs[p])).result # Null)]_vars

(***************************************************************************)
(* C24: once a YouTube Music search has found nothing for a query, no      *)
(* provider search is issued for that query while the cached not-found is  *)
(* unexpired.                                                              *)
(***************************************************************************)
FreshNotFound(cache, query, t) ==
  /\ MapHas(cache, query)
  /\ ~PS_searchExpired(MapGet(cache, query), t)
  /\ MapGet(cache, query).result = Null

C24_NotFoundIsServedFromCache ==
  [][\A c \in CallIds :
       calls'[c].provider = "yt" =>
         \A p \in IssuedNow(c) :
           ~FreshNotFound(ps_searchResults, buildQuery(calls'[c].songs[p]), now)]_vars

(***************************************************************************)
(* C25: a callback that presents a state whose verifier was stored more    *)
(* than ten minutes earlier is rejected and no token exchange is tried,    *)
(* whether or not an auth/init ran in between.                             *)
(***************************************************************************)
C25_OldVerifierIsRejected ==
  (/\ last.op = "handleSpotifyCallback"
   /\ last.storedData # Null
   /\ last.at - last.storedData.timestamp > TEN_MINUTES) =>
    /\ last.http = 400
    /\ ~last.exchanged

(* what the code keeps: an auth/init leaves no verifier older than ten     *)
(* minutes in the map                                                      *)
C25_InitSweeps ==
  (last.op = "initSpotifyAuth" /\ last.http = 200) =>
    \A i \in 1..Len(req.tempCodeVerifiers) :
      now - req.tempCodeVerifiers[i].timestamp <= TEN_MINUTES

(***************************************************************************)
(* C26: when both parse attempts of the repairing parser fail and the      *)
(* regular expressions of the extraction throw, the parser returns the     *)
(* emergency playlist: its fixed title and description and its ten pieces. *)
(***************************************************************************)
ExtractionErrored ==
  /\ last.op = "parseJsonFromGeminiResponse"
  /\ last.module = "part_007"
  /\ last.arg.form = "overflow"

Stamp(e) == IF "createdAt" \in DOMAIN e THEN e.createdAt ELSE e.timestamp

MapNow == IF last.op = "storePlaylist" THEN im_playlists ELSE im_searchCache

Inserted == last.op \in {"storePlaylist", "storeSearchResult"}

(* the keys the insert made last has removed *)
Evicted == MapKeys(last.before) \ MapKeys(MapNow)

C27_EvictsSmallestTimestamp ==
  Inserted =>
    \A k \in Evicted :
      \A j \in 1..Len(last.before) :
        Stamp(MapGet(last.before, k)) <= Stamp(last.before[j])

(***************************************************************************)
(* C27 (amended): an insert of a new key into a full map evicts the key    *)
(* that is first in the map's insertion order, whatever the timestamps; a  *)
(* key written again keeps its place, so the evicted entry may be the one  *)
(* written last.  No other entry is removed or changed.                    *)
(***************************************************************************)
C27_EvictsFirstInserted ==
  Inserted =>
    /\ Evicted \subseteq {last.before[1].key : x \in {1} \cap DOMAIN last.before}
    /\ Evicted # {} <=> (Len(last.before) = maxCacheSize /\ ~MapHas(last.before, last.arg))
    /\ \A k \in MapKeys(MapNow) \ {last.arg} : MapGet(MapNow, k) = MapGet(last.before, k)

(* the first key was written again later than the second, and the insert   *)
(* of a third key has evicted it                                           *)
C27_Witness ==
  /\ Inserted
  /\ Evicted # {}
  /\ Len(last.before) = 2
  /\ Stamp(last.before[1]) > Stamp(last.before[2])
  /\ ~MapHas(MapNow, last.before[1].key)

(***************************************************************************)
(* C28: after an accepted refinement the list ends with the input tracks   *)
(* that were not eligible (no uri, or no track id), in their input order,  *)
(* after the refined eligible tracks.                                      *)
(***************************************************************************)
Ineligible(songs) == SelectSeq(songs, LAMBDA x : ~(x.uri # Null /\ x.id # Null))

C28_IneligibleAppended ==
  (last.op = "refinePlaylistWithAudioFeatures" /\ last.ret # Thrown) =>
    LET left == Ineligible(last.arg.songs)
        n == Len(last.ret.items)
    IN /\ n >= Len(left)
       /\ \A k \in 1..Len(left) :
            /\ last.ret.items[n - Len(left) + k].title = left[k].title
            /\ last.ret.items[n - Len(left) + k].artist = left[k].artist

(***************************************************************************)
(* C29: when resolutions of one query race (each missed the cache, each    *)
(* searched, each stores), the cache holds exactly one entry for the key,  *)
(* with the outcome of one of the searches; each store grows the cache by  *)
(* at most one entry and leaves every unexpired entry of another key as it *)
(* was.                                                                    *)
(***************************************************************************)
(* the positions (call, place) whose search for query q the provider answered *)
Searched(q) ==
  {cp \in CallIds \X (1..Len(RaceList)) :
     /\ Len(calls[cp[1]].paths) >= cp[2]
     /\ calls[cp[1]].paths[cp[2]] \in {"match", "empty"}
     /\ buildQuery(calls[cp[1]].songs[cp[2]]) = q}

EntriesFor(q) == {i \in 1..Len(ps_searchResults) : ps_searchResults[i].key = q}

Outcome(answer, q) == IF answer = "match" THEN YtTrack(q) ELSE Null

RaceLeavesOneEntry ==
  \A q \in {buildQuery(RaceList[k]) : k \in 1..Len(RaceList)} :
    /\ Cardinality(EntriesFor(q)) <= 1
    /\ Cardinality(Searched(q)) >= 2 =>
         \A i \in EntriesFor(q) :
           \E cp \in Searched(q) :
             ps_searchResults[i].result = Outcome(calls[cp[1]].paths[cp[2]], q)

StoreStepFrame ==
  [][ps_searchResults' # ps_searchResults =>
       /\ Len(ps_searchResults') <= Len(ps_searchResults) + 1
       /\ \A c \in CallIds : \A p \in AnsweredNow(c) :
            /\ Cardinality({i \in 1..Len(ps_searchResults') :
                              ps_searchResults'[i].key
                                = buildQuery(calls[c].songs[p])}) = 1
            /\ \A i \in 1..Len(ps_searchResults) :
                 (/\ ps_searchResults[i].key # buildQuery(calls[c].songs[p])
                  /\ ~PS_searchExpired(ps_searchResults[i], now)) =>
                   /\ MapHas(ps_searchResults', ps_searchResults[i].key)
                   /\ MapGet(ps_searchResults', ps_searchResults[i].key)
                        = ps_searchResults[i]]_vars

C29_RaceIsIdempotent == []RaceLeavesOneEntry /\ StoreStepFrame

(* as stated: a store leaves every entry of another key, expired or not *)
C29_NoOtherKeyChanged ==
  [][\A c \in CallIds : \A p \in AnsweredNow(c) :
       \A i \in 1..Len(ps_searchResults) :
         ps_searchResults[i].key # buildQuery(calls[c].songs[p]) =>
           /\ MapHas(ps_searchResults', ps_searchResults[i].key)
           /\ MapGet(ps_searchResults', ps_searchResults[i].key)
                = ps_searchResults[i]]_vars

(* four searches of one query were answered, two in each call, all after   *)
(* a miss, and the cache holds one entry for it                            *)
C29_Witness ==
  /\ Cardinality(Searched(buildQuery(S1))) = 4
  /\ Cardinality(EntriesFor(buildQuery(S1))) = 1
  /\ Len(ps_searchResults) = 2

(***************************************************************************)
(* C30: the handler answers 401 to every error whose message reports an    *)
(* invalid token, the one of getSpotifyUserProfile included, and 503 only  *)
(* to errors that are not credential failures.                             *)
(***************************************************************************)
ReportsInvalidToken(err) ==
  includes(err.message, <<"invalid">>) /\ includes(err.message, <<"token">>)

C30_InvalidTokenIs401 ==
  last.op = "errorHandler" =>
    /\ ReportsInvalidToken(last.arg) => last.ret.status = 401
    /\ last.ret.status = 503 => ~ReportsInvalidToken(last.arg)

(* held by the code: outside the earlier branches an invalid token is 401 *)
C30_PlainInvalidTokenIs401 ==
  (/\ last.op = "errorHandler"
   /\ last.arg.message = Str(<<"invalid", "token">>)
   /\ last.arg.errType = Null
   /\ ~last.arg.isAxiosError) => last.ret.status = 401

(***************************************************************************)
(* C31: a saved playlist that has an owner is deleted only by a request    *)
(* whose userId is the owner's; every other delete request for it,         *)
(* one without userId included, is answered 403 and leaves it stored.      *)
(***************************************************************************)
DeleteOfOwned ==
  /\ last.op = "deletePlaylist"
  /\ last.ready
  /\ MapHas(last.before, last.id)
  /\ Truthy(MapGet(last.before, last.id).userId)

C31_OnlyOwnerDeletes ==
  DeleteOfOwned =>
    IF last.userId = MapGet(last.before, last.id).userId
    THEN last.http = 200 /\ ~MapHas(req.db, last.id)
    ELSE last.http = 403 /\ MapHas(req.db, last.id)

(* held by the code: a request naming another user is refused *)
C31_OtherUserRefused ==
  (DeleteOfOwned /\ Truthy(last.userId)
     /\ last.userId # MapGet(last.before, last.id).userId) =>
    last.http = 403 /\ req.db = last.before

(***************************************************************************)
(* C39: at most one Spotify playlist is ever created for a saved playlist, *)
(* also when two requests interleave; once one exists every other request  *)
(* answers 409 without calling Spotify; a created Spotify playlist is      *)
(* always recorded on the saved playlist.                                  *)
(***************************************************************************)
CreatedFor(id) == {k \in 1..Len(req.created) : req.created[k].forSaved = id}

NoFrameBusy == \A r \in SavedFrames : req.frames[r].pc = "idle"

C39_OneSpotifyPlaylistPerSaved ==
  /\ \A id \in SavedIds : Cardinality(CreatedFor(id)) <= 1
  /\ NoFrameBusy =>
       \A k \in 1..Len(req.created) :
         MapHas(req.db, req.created[k].forSaved) => req.created[k].recorded

(* held by the code: a request that finds spotifyPlaylistId set answers    *)
(* 409 and creates nothing                                                 *)
C39_RecordedAnswers409 ==
  [][\A r \in SavedFrames :
       (/\ req.frames[r].pc = "idle"
        /\ last'.op = "createSpotifyFromSaved"
        /\ last'.frame = r
        /\ MapHas(req.db, last'.id)
        /\ Truthy(MapGet(req.db, last'.id).spotifyPlaylistId)
        /\ last'.http \notin {400, 503}) =>
         last'.http = 409 /\ req'.created = req.created]_vars

(***************************************************************************)
(* C32: interleaved initialize() calls made before initialization is       *)
(* complete start exactly one client initialization and none returns       *)
(* before it has finished; `initialized` never goes back to false and no   *)
(* later call starts another initialization.                               *)
(***************************************************************************)
OneInitialization ==
  /\ req.called > 0 /\ (req.svc.promises = <<>> \/ req.svc.promises[1] # "rejected")
       => Len(req.svc.promises) = 1
  /\ \A c \in InitFrames :
       req.frames[c].outcome = "returned" =>
         /\ req.svc.initialized
         /\ req.svc.promises[1] = "fulfilled"

C32_SingleInitialization ==
  /\ []OneInitialization
  /\ [][/\ req.svc.initialized => req'.svc.initialized
        /\ req.svc.initialized => req'.svc.promises = req.svc.promises]_vars

(* two callers awaited the one attempt together and both returned *)
C32_Witness ==
  /\ \A c \in InitFrames :
       req.frames[c].outcome = "returned" /\ req.frames[c].on = Num(1)
  /\ Len(req.svc.promises) = 1

(***************************************************************************)
(* C33: after a failed first attempt every later initialize() is rejected  *)
(* with that failure and starts no new attempt, `initialized` stays false, *)
(* searchMultipleTracks throws and a generate request ends in a failure    *)
(* response.                                                               *)
(***************************************************************************)
FirstAttemptFailed ==
  req.svc.promises # <<>> /\ req.svc.promises[1] = "rejected"

C33_FailureIsPermanent ==
  FirstAttemptFailed =>
    /\ Len(req.svc.promises) = 1
    /\ ~req.svc.initialized
    /\ \A c \in InitFrames :
         /\ req.frames[c].pc = "awaiting" => req.frames[c].on = Num(1)
         /\ req.frames[c].pc = "done" =>
              /\ req.frames[c].outcome = "thrown"
              /\ req.frames[c].error = 1
              /\ req.frames[c].kind = "getPlaylist" => req.frames[c].http = 500

(* a generate request and a searchMultipleTracks call, both made after the *)
(* failure, have been rejected with it                                     *)
C33_Witness ==
  /\ FirstAttemptFailed
  /\ \E c, d \in InitFrames :
       /\ req.frames[c].late /\ req.frames[c].kind = "getPlaylist"
       /\ req.frames[c].http = 500
       /\ req.frames[d].late /\ req.frames[d].kind = "searchMultipleTracks"
       /\ req.frames[d].outcome = "thrown"

(***************************************************************************)
(* C34: when no candidate resolves on YouTube Music the generate request   *)
(* ends with the not-found error and nothing else: no playlist is put in   *)
(* the cache, no Spotify search, profile lookup or playlist creation is    *)
(* issued, token or not, and nothing is saved to the database.             *)
(***************************************************************************)
NothingResolved == Answered /\ Cardinality(Resolved) = 0

C34_NotFoundHasNoEffect ==
  NothingResolved =>
    /\ req.response.http = 404
    /\ req.response.data = Null
    /\ req.final = Null
    /\ ps_playlists = <<>>
    /\ nextGen = 0
    /\ calls[2] = IdleCall
    /\ req.spotifyResults = <<>>
    /\ ~req.spotifyCreated
    /\ ~req.spotifyFailed

(* the not-found answer of a request that carried a Spotify token *)
C34_Witness ==
  /\ NothingResolved
  /\ req.token = "valid"
  /\ Candidates > 1
  /\ req.response.http = 404

(***************************************************************************)
(* C35: in a generate request with a Spotify token the answer and the      *)
(* Spotify account agree: the field `spotify` of the answer is null        *)
(* exactly when the request created no playlist in the account.            *)
(***************************************************************************)
AnsweredWithPlaylist == Answered /\ req.response.http = 200

C35_SpotifyFieldTellsCreation ==
  AnsweredWithPlaylist =>
    (req.response.data.spotify = Null <=> ~req.spotifyCreated)

(* held by the code: an answer that names a Spotify playlist has one *)
C35_ReportedPlaylistExists ==
  AnsweredWithPlaylist =>
    (req.response.data.spotify # Null => req.spotifyCreated)

(***************************************************************************)
(* C36: every Spotify playlist the create-direct flow creates receives at  *)
(* least 5 tracks: fewer than 5 found is the insufficient-songs error with *)
(* nothing created, and the list sent after the optional refinement still  *)
(* has at least 5 tracks.                                                  *)
(***************************************************************************)
C36_CreatedPlaylistHasFiveTracks ==
  /\ req.pc = "add" => Len(req.tracks) >= 5
  /\ (req.pc \in {"refine", "create", "add"}) => Len(req.foundSongs) >= 5

(* held by the code: the list is that long whenever no refinement was      *)
(* accepted, and fewer than 5 found songs end the request                  *)
C36_FiveFoundWithoutRefinement ==
  /\ (req.pc = "add" /\ req.refinement # "accepted") => Len(req.tracks) >= 5
  /\ (req.pc \in {"refine", "create", "add"}) => Len(req.foundSongs) >= 5
  /\ (req.pc = "responded" /\ req.response.http = 200
        /\ req.refinement # "accepted") => req.response.data.totalTracks >= 5

(***************************************************************************)
(* C37: an OAuth state is single-use in both callback handlers: its entry  *)
(* is deleted when a callback for it is accepted, before the exchange      *)
(* starts, so at most one exchange is attempted per state and every later  *)
(* or interleaved callback with it is rejected, also after a failed        *)
(* exchange.                                                               *)
(***************************************************************************)
ExchangesOf(state) ==
  {k \in 1..Len(req.exchanges) : req.exchanges[k].state = state}

C37_StateIsSingleUse ==
  /\ \A n \in 1..req.issued : Cardinality(ExchangesOf(AuthState(n))) <= 1
  /\ \A k \in 1..Len(req.exchanges) :
       /\ ~MapHas(req.tempCodeVerifiers, req.exchanges[k].state)
       /\ ~MapHas(req.stateStore, req.exchanges[k].state)
  /\ (last.op = "callback" /\ last.usedBefore) =>
        last.answer \in {"invalid_state", "missing", "error"}

(* a callback of handleCallback with a state whose exchange had failed was *)
(* rejected, while a callback of the other handler awaits its exchange     *)
C37_Witness ==
  /\ last.op = "callback"
  /\ last.handler = "spotifyAuthController"
  /\ last.failedBefore
  /\ last.answer = "invalid_state"
  /\ \E c \in CallbackFrames :
       /\ req.frames[c].pc = "exchanging"
       /\ req.frames[c].handler = "spotifyController"

====
